---- MODULE Spec2Model ----
(***************************************************************************)
(* Inventory enrichment pipeline of lexiillc-ecommerce: the raw inventory  *)
(* cache, the per-item enrichment cache, enrichItemsBatch and the HTTP     *)
(* handlers GET /api/inventory and GET /api/inventory/$id, as a state      *)
(* machine of interleaved asynchronous request handlers.                   *)
(*                                                                         *)
(* A step of the model is what one event-loop task runs: the code from the  *)
(* arrival of a request, a network answer or a timer up to the point where  *)
(* every handler it resumed waits on a network call or a timer again        *)
(* (awaits of already settled promises are continued within the step).     *)
(* The external collaborators are the environment:                          *)
(* the inventory source answers a fetch with one of Upstreams or fails,    *)
(* the image provider answers with one of ImageResults, and an awaited     *)
(* item pipeline may reject (the case the catch of enrichItemsBatch        *)
(* handles).                                                               *)
(***************************************************************************)
EXTENDS Integers, Sequences, FiniteSets, TLC

(* ---------------------------------------------------------------- bounds *)
MaxReq == 2        \* request handlers that run (and interleave) in a behaviour
MaxPage == 3       \* page query parameter ranges over 1..MaxPage
MaxPageSize == 2   \* pageSize query parameter ranges over 1..MaxPageSize
MaxTime == 1       \* clock ticks in a behaviour

(* ------------------------------------------------------ program constants *)
batchSize == 10    \* inventory-service.ts:40
TTL == 1           \* raw cache time-to-live, in clock ticks (inventory-cache)

(* ------------------------------------------------------------ optionals *)
\* A JavaScript optional number: undefined, null or a number.
Undefined == <<>>
Null == <<0, 0>>
Num(n) == <<n>>
IsNum(x) == Len(x) = 1

Min(a, b) == IF a < b THEN a ELSE b
Ceil(n, d) == (n + d - 1) \div d

\* Array.prototype.slice(a, b) for 0 <= a, 0 <= b (0-based, end exclusive).
Slice(s, a, b) == SubSeq(s, a + 1, Min(b, Len(s)))

(* ----------------------------------------------------- upstream inventory *)
\* The name of an item is its id, as a one-character string.
CloverItem(i, p, s) == [id |-> i, name |-> <<i>>, price |-> p, stockCount |-> s]

\* What the inventory source may answer to one fetch cycle.
Upstreams ==
  { \* five valid items
    << CloverItem("a", Num(100), Num(3)), CloverItem("b", Num(200), Undefined),
       CloverItem("c", Num(300), Num(1)), CloverItem("d", Num(100), Null),
       CloverItem("e", Num(500), Num(2)) >>,
    \* a later state of the shop, in another order: price 0, a repriced, price
    \* missing, stock 0, stock undefined with price > 0, price null, stock < 0
    << CloverItem("e", Num(0), Num(2)), CloverItem("a", Num(150), Num(1)),
       CloverItem("b", Undefined, Num(3)), CloverItem("c", Num(300), Num(0)),
       CloverItem("d", Num(100), Undefined), CloverItem("f", Null, Num(1)),
       CloverItem("g", Num(500), Num(-1)) >> }

\* The ids a product lookup asks for: one on sale in every answer of the source,
\* one in none.
LookupIds == {"a", "zz"}

\* What the image provider answers to the search of a pipeline that resolves.
\* (With bestMatch null, a pipeline whose search finds nothing resolves with the
\* record createFallbackItem builds: for the caches and the responses that
\* outcome is the throwing one.)
ImageResults == { <<"u1", "u2">> }

(* ----------------------------------------------------------------- state *)
VARIABLES
  now,          \* the clock (Date.now()), in ticks
  rawCache,     \* raw inventory cache entry: <<>> or <<[data, timestamp]>>
  enrichCache,  \* enrichment cache: a map from item id to EnrichedInventoryItem
  req,          \* the request handlers: kind, position, parameters, response
  run,          \* the enrichItemsBatch calls: <<r, "main">> awaited by handler r,
                \* <<r, "pre">> its background prefetch
  writes,       \* history: the enrichment-cache writes, by the call that made them
  pipe,         \* one enrichInventoryItem call followed stage by stage
  match,        \* one findBestMatch call: its arguments and its result
  cycle,        \* one fetch cycle of the inventory source (clover-api)
  cart          \* the cart store and the cart requests served on it

vars == <<now, rawCache, enrichCache, req, run, writes, pipe, match, cycle, cart>>

\* The server's state, and the calls that are followed on their own.
server == <<now, rawCache, enrichCache, req, run, writes>>
units == <<pipe, match, cycle, cart>>

Reqs == 1..MaxReq
Runs == Reqs \X {"main", "pre"}

(* ------------------------------------------------------------- raw cache *)
\* inventory-cache: a CacheEntry is valid while now - timestamp < TTL.
getCachedRawInventory ==
  IF rawCache # <<>> /\ now - rawCache[1].timestamp < TTL
  THEN <<rawCache[1].data>> ELSE <<>>

setCachedRawInventory(items) == <<[data |-> items, timestamp |-> now]>>

(* ------------------------------------------------------------ raw filter *)
hasValidPriceOrZero(item) == IsNum(item.price) /\ item.price[1] >= 0

hasValidPrice(item) == IsNum(item.price) /\ item.price[1] > 0
isInStock(item) == ~IsNum(item.stockCount) \/ item.stockCount[1] > 0
\* Only the stock test.
isValidItemStockOnly(item) == isInStock(item)

isValidItem(item) == hasValidPrice(item) /\ isInStock(item)
validItems(cloverItems) == SelectSeq(cloverItems, isValidItem)

(* ---------------------------------------------------------------- caches *)
\* inventory-cache: a map c keyed by item id, no TTL, no eviction.
getCachedEnrichment(c, id) == IF id \in DOMAIN c THEN <<c[id]>> ELSE <<>>

setCachedEnrichment(c, id, v) ==
  [x \in DOMAIN c \cup {id} |-> IF x = id THEN v ELSE c[x]]

(* ------------------------------------------------------------ shoe-parser *)
\* The deterministic parse, a total function of the name (a string: a sequence
\* of characters).  A field the parser does not find is the empty string.
parseShoeName(name) ==
  IF name = <<"a">>
  THEN [brand |-> <<"a">>, model |-> <<"b">>, size |-> <<"1">>,
        searchQuery |-> <<"a", " ", "b">>]
  ELSE IF name = <<"A", "B">>
  THEN [brand |-> <<"b">>, model |-> <<>>, size |-> <<"2">>, searchQuery |-> <<"b">>]
  ELSE IF name = <<"c">>
  THEN [brand |-> <<"b">>, model |-> <<>>, size |-> <<"1">>, searchQuery |-> <<"c">>]
  ELSE [brand |-> <<>>, model |-> <<>>, size |-> <<>>, searchQuery |-> <<>>]

(* -------------------------------------------------------- item enrichment *)
\* The catalogue search returns no products (sneaks-api.ts:36), so bestMatch is
\* null and the image search decides imageUrl, images and matched.
enrichInventoryItem(item, searchImages) ==
  LET found == Len(searchImages) > 0
  IN [ id |-> item.id, originalName |-> item.name,
       price |-> item.price, stockCount |-> item.stockCount,
       imageUrl |-> IF found THEN <<searchImages[1]>> ELSE <<>>,
       images |-> IF found THEN searchImages ELSE <<>>,
       matched |-> found ]

\* The fallback item loses the price.
createFallbackItemNoPrice(item) ==
  [ id |-> item.id, originalName |-> item.name,
    price |-> Undefined, stockCount |-> item.stockCount,
    imageUrl |-> <<>>, images |-> <<>>, matched |-> FALSE ]

createFallbackItem(item) ==
  [ id |-> item.id, originalName |-> item.name,
    price |-> item.price, stockCount |-> item.stockCount,
    imageUrl |-> <<>>, images |-> <<>>, matched |-> FALSE ]

\* The outcomes of one awaited item pipeline.
Outcomes ==
  {[throws |-> TRUE, images |-> <<>>]} \cup
  {[throws |-> FALSE, images |-> im] : im \in ImageResults}

(* -------------------------------------------------------- enrichItemsBatch *)
\* One call of enrichItemsBatch: the items, the start index i of the batch in
\* flight, one slot per item of that batch (cache hit, pending pipeline, resolved
\* ok, or failed and caught), the results pushed so far (out), how each pushed
\* result was obtained (how), and whether an item of the call completed while an
\* earlier one of its batch was still pending (ooo).
IdleRun ==
  [state |-> "idle", items |-> <<>>, i |-> 0, slots |-> <<>>, out |-> <<>>,
   how |-> <<>>, ooo |-> FALSE]

\* No cache check: every item of the batch goes through the pipeline.
StartBatchUnchecked(c, items, i) ==
  [p \in 1..Len(Slice(items, i, i + batchSize)) |-> [st |-> "pending", res |-> <<>>]]

\* No partition: the call starts the pipelines of all remaining items at once.
StartBatchAll(c, items, i) ==
  [p \in 1..Len(Slice(items, i, Len(items))) |->
     IF getCachedEnrichment(c, items[i + p].id) # <<>>
     THEN [st |-> "hit", res |-> getCachedEnrichment(c, items[i + p].id)]
     ELSE [st |-> "pending", res |-> <<>>]]

\* batch.map up to each callback's first network call: the cache check of every
\* item of the batch, against the cache c of that moment.
StartBatch(c, items, i) ==
  LET batch == Slice(items, i, i + batchSize)
  IN [p \in 1..Len(batch) |->
        LET cached == getCachedEnrichment(c, batch[p].id)
        IN IF cached # <<>>
           THEN [st |-> "hit", res |-> cached]
           ELSE [st |-> "pending", res |-> <<>>]]

HitsFirst(slots, done) ==
  SelectSeq([p \in 1..Len(slots) |-> p],
            LAMBDA p : (slots[p].st = "hit") = done)

\* The results of the cache hits, then those of the pipelines.
batchResultsHitsFirst(slots) ==
  LET order == HitsFirst(slots, TRUE) \o HitsFirst(slots, FALSE)
  IN [p \in 1..Len(slots) |-> slots[order[p]].res[1]]

\* Promise.all(batchPromises): the results by position in the batch.
batchResults(slots) == [p \in 1..Len(slots) |-> slots[p].res[1]]

\* await Promise.all: once no item of the batch is pending, push the batch; then
\* the inter-batch delay, or return.
awaitAll(rn) ==
  IF rn.state = "running" /\ \A p \in DOMAIN rn.slots : rn.slots[p].st # "pending"
  THEN [rn EXCEPT
         !.out = @ \o batchResults(rn.slots),
         !.how = @ \o [p \in 1..Len(rn.slots) |-> rn.slots[p].st],
         !.state = IF rn.i + batchSize < Len(rn.items) THEN "delay" ELSE "done"]
  ELSE rn

\* The call, up to the point where it waits for the network or has returned.
enrichItemsBatch(c, items) ==
  IF Len(items) = 0
  THEN [IdleRun EXCEPT !.state = "done"]
  ELSE awaitAll([IdleRun EXCEPT !.state = "running", !.items = items,
                                !.slots = StartBatch(c, items, 0)])

ItemAt(rn, p) == rn.items[rn.i + p]

Settle(rn, p, st, v) ==
  [rn EXCEPT !.slots[p] = [st |-> st, res |-> <<v>>],
             !.ooo = @ \/ \E q \in 1..(p - 1) : rn.slots[q].st = "pending"]

\* await enrichInventoryItem(item) resolved: cache the enriched item, return it.
Enriched(c, rn, p, searchImages) ==
  LET v == enrichInventoryItem(ItemAt(rn, p), searchImages)
  IN [c |-> setCachedEnrichment(c, ItemAt(rn, p).id, v),
      rn |-> Settle(rn, p, "ok", v)]

\* No catch: the rejection reaches Promise.all and the call rejects.
CaughtRethrown(c, rn, p) == [c |-> c, rn |-> [rn EXCEPT !.state = "rejected"]]

\* The fallback item is returned but not cached.
CaughtUncached(c, rn, p) ==
  [c |-> c, rn |-> Settle(rn, p, "fail", createFallbackItem(ItemAt(rn, p)))]

\* await enrichInventoryItem(item) rejected: cache the fallback item, return it.
Caught(c, rn, p) ==
  LET v == createFallbackItem(ItemAt(rn, p))
  IN [c |-> setCachedEnrichment(c, ItemAt(rn, p).id, v),
      rn |-> Settle(rn, p, "fail", v)]

(* --------------------------------------------------------------- handlers *)
IdleReq ==
  [kind |-> "none", pc |-> "idle", page |-> 0, pageSize |-> 0, id |-> "",
   raw |-> <<>>, rawFrom |-> "none", resp |-> <<>>]

\* The product lookup's answer for an enriched product.
ProductResponse(product) ==
  IF IsNum(product.stockCount) /\ product.stockCount[1] <= 0
  THEN [status |-> 404, error |-> "Product is out of stock"]
  ELSE [status |-> 200, product |-> product]

startIndex(q) == (q.page - 1) * q.pageSize
endIndex(q) == startIndex(q) + q.pageSize
\* The slice starts at page * pageSize.
paginatedRawItemsFromPage(q) == Slice(q.raw, q.page * q.pageSize, endIndex(q) + q.pageSize)
paginatedRawItems(q) == Slice(q.raw, startIndex(q), endIndex(q))
\* The prefetch takes everything after the current page.
nextPageItemsRest(q) == Slice(q.raw, endIndex(q), Len(q.raw))

nextPageItems(q) ==
  Slice(q.raw, endIndex(q), Min(endIndex(q) + q.pageSize, Len(q.raw)))

\* totalPages rounded down.
PageResultFloor(q, enrichedItems) ==
  LET inStockItems == SelectSeq(enrichedItems, isInStock)
      totalInStock == Len(SelectSeq(q.raw, isInStock))
  IN [ status |-> 200, items |-> inStockItems, total |-> totalInStock,
       page |-> q.page, pageSize |-> q.pageSize,
       totalPages |-> totalInStock \div q.pageSize,
       hasMore |-> q.page < totalInStock \div q.pageSize ]

\* hasMore is also true on the last page.
PageResultMoreOnLast(q, enrichedItems) ==
  LET inStockItems == SelectSeq(enrichedItems, isInStock)
      totalInStock == Len(SelectSeq(q.raw, isInStock))
  IN [ status |-> 200, items |-> inStockItems, total |-> totalInStock,
       page |-> q.page, pageSize |-> q.pageSize,
       totalPages |-> Ceil(totalInStock, q.pageSize),
       hasMore |-> q.page <= Ceil(totalInStock, q.pageSize) ]

PageResult(q, enrichedItems) ==
  LET inStockItems == SelectSeq(enrichedItems, isInStock)
      totalInStock == Len(SelectSeq(q.raw, isInStock))
  IN [ status |-> 200, items |-> inStockItems, total |-> totalInStock,
       page |-> q.page, pageSize |-> q.pageSize,
       totalPages |-> Ceil(totalInStock, q.pageSize),
       hasMore |-> q.page < Ceil(totalInStock, q.pageSize) ]

\* Whether the page handler starts the background enrichment of the next page.
prefetches(q) == q.page < Ceil(Len(q.raw), q.pageSize)

\* rawFrom tells how the handler's getRawInventory call ended: "cache", "fetch"
\* or "failed" ("none": not called, or not yet returned).
\* A handler's progress within one step: its record q, the enrichItemsBatch call
\* it awaits (main) and the one it started in the background (pre).
Progress(q, main, pre) == [q |-> q, main |-> main, pre |-> pre]

\* The page handler awaits the prefetch before it answers.
AfterEnrichAwaitsPrefetch(c, q, main) ==
  LET pre == IF q.kind = "page" /\ prefetches(q)
             THEN enrichItemsBatch(c, nextPageItems(q)) ELSE IdleRun
  IN IF pre.state = "running"
     THEN Progress([q EXCEPT !.pc = "enriching"], main, pre)
     ELSE Progress([q EXCEPT !.pc = "done", !.resp =
                      IF q.kind = "page" THEN <<PageResult(q, main.out)>>
                      ELSE <<ProductResponse(main.out[1])>>],
                   main, pre)

\* The handler after its awaited enrichItemsBatch call returned.  Page: the
\* stock filter, the prefetch of the next page (started, not awaited), the
\* response.  Product: the stock check, the response.
AfterEnrich(c, q, main) ==
  IF q.kind = "page"
  THEN Progress([q EXCEPT !.pc = "done", !.resp = <<PageResult(q, main.out)>>],
                main,
                IF prefetches(q) THEN enrichItemsBatch(c, nextPageItems(q))
                ELSE IdleRun)
  ELSE Progress([q EXCEPT !.pc = "done", !.resp = <<ProductResponse(main.out[1])>>],
                main, IdleRun)

\* The handler awaits enrichItemsBatch(items).
Enrich(c, q, items) ==
  LET main == enrichItemsBatch(c, items)
  IN IF main.state = "done"
     THEN AfterEnrich(c, q, main)
     ELSE Progress([q EXCEPT !.pc = "enriching"], main, IdleRun)

\* The metadata answer: the brands and sizes the parser finds in the names of
\* the raw items (sorted lists without duplicates, given as sets).
MetaResult(rawItems) ==
  LET parsed == {parseShoeName(rawItems[i].name) : i \in 1..Len(rawItems)}
  IN [ status |-> 200, total |-> Len(rawItems),
       brands |-> {p.brand : p \in parsed} \ {<<>>},
       sizes |-> {p.size : p \in parsed} \ {<<>>} ]

\* The metadata request enriches the whole inventory.
AfterRawMetaEnriches(c, q0, rawItems) ==
  LET q == [q0 EXCEPT !.raw = rawItems]
      found == SelectSeq(rawItems, LAMBDA item : item.id = q.id)
  IN CASE q.kind = "meta" -> Enrich(c, q, rawItems)
       [] q.kind = "page" -> Enrich(c, q, paginatedRawItems(q))
       [] q.kind = "item" ->
            IF found = <<>>
            THEN Progress([q EXCEPT !.pc = "done",
                        !.resp = <<[status |-> 404, error |-> "Product not found"]>>],
                     IdleRun, IdleRun)
            ELSE Enrich(c, q, <<found[1]>>)

\* The handler after getRawInventory returned rawItems.
AfterRaw(c, q0, rawItems) ==
  LET q == [q0 EXCEPT !.raw = rawItems]
      found == SelectSeq(rawItems, LAMBDA item : item.id = q.id)
  IN CASE q.kind = "meta" ->
            Progress([q EXCEPT !.pc = "done", !.resp = <<MetaResult(rawItems)>>],
                     IdleRun, IdleRun)
       [] q.kind = "page" -> Enrich(c, q, paginatedRawItems(q))
       [] q.kind = "item" ->
            IF found = <<>>
            THEN Progress([q EXCEPT !.pc = "done",
                        !.resp = <<[status |-> 404, error |-> "Product not found"]>>],
                     IdleRun, IdleRun)
            ELSE Enrich(c, q, <<found[1]>>)

\* getRawInventory: a valid cache entry is returned, otherwise the upstream
\* fetch starts.
getRawInventory(c, q) ==
  LET cached == getCachedRawInventory
  IN IF cached # <<>>
     THEN AfterRaw(c, [q EXCEPT !.rawFrom = "cache"], cached[1])
     ELSE Progress([q EXCEPT !.pc = "fetching"], IdleRun, IdleRun)

\* The step's effect on handler r and its two calls.
Proceed(r, h) ==
  /\ req' = [req EXCEPT ![r] = h.q]
  /\ run' = [run EXCEPT ![<<r, "main">>] = h.main, ![<<r, "pre">>] = h.pre]

\* Requests are taken up in the order of their numbers.
CanStart(r) ==
  /\ req[r].pc = "idle"
  /\ IF r = 1 THEN TRUE ELSE req[r - 1].pc # "idle"

\* GET /api/inventory?page=&pageSize=
StartPage(r, page, pageSize) ==
  /\ CanStart(r)
  /\ Proceed(r, getRawInventory(enrichCache,
        [req[r] EXCEPT !.kind = "page", !.page = page, !.pageSize = pageSize]))
  /\ UNCHANGED <<now, rawCache, enrichCache, writes, units>>

\* GET /api/inventory?all=true
StartMeta(r) ==
  /\ CanStart(r)
  /\ Proceed(r, getRawInventory(enrichCache, [req[r] EXCEPT !.kind = "meta"]))
  /\ UNCHANGED <<now, rawCache, enrichCache, writes, units>>

\* No cache check: the lookup always reads the raw inventory.
StartItemNoShortCircuit(r, id) ==
  /\ CanStart(r)
  /\ Proceed(r, getRawInventory(enrichCache, [req[r] EXCEPT !.kind = "item", !.id = id]))
  /\ UNCHANGED <<now, rawCache, enrichCache, writes, units>>

\* GET /api/inventory/$id
StartItem(r, id) ==
  /\ CanStart(r)
  /\ LET q == [req[r] EXCEPT !.kind = "item", !.id = id]
         product == getCachedEnrichment(enrichCache, id)
     IN Proceed(r,
          IF product # <<>>
          THEN Progress([q EXCEPT !.pc = "done",
                                  !.resp = <<ProductResponse(product[1])>>],
                        IdleRun, IdleRun)
          ELSE getRawInventory(enrichCache, q))
  /\ UNCHANGED <<now, rawCache, enrichCache, writes, units>>

\* fetchCloverInventoryServer resolved with cloverItems: filter, cache, return
\* to the handler.
FetchOk(r, cloverItems) ==
  /\ req[r].pc = "fetching"
  /\ rawCache' = setCachedRawInventory(validItems(cloverItems))
  /\ Proceed(r, AfterRaw(enrichCache, [req[r] EXCEPT !.rawFrom = "fetch"],
                         validItems(cloverItems)))
  /\ UNCHANGED <<now, enrichCache, writes, units>>

\* The failure is cached as an empty inventory.
FetchFailCachesEmpty(r) ==
  /\ req[r].pc = "fetching"
  /\ rawCache' = setCachedRawInventory(<<>>)
  /\ req' = [req EXCEPT ![r].pc = "done", ![r].rawFrom = "failed",
                        ![r].resp = <<[status |-> 500, message |-> "error"]>>]
  /\ UNCHANGED <<now, enrichCache, run, writes, units>>

\* fetchCloverInventoryServer rejected: getRawInventory rejects, the handler's
\* catch answers 500.
FetchFail(r) ==
  /\ req[r].pc = "fetching"
  /\ req' = [req EXCEPT ![r].pc = "done", ![r].rawFrom = "failed",
                        ![r].resp = <<[status |-> 500, message |-> "error"]>>]
  /\ UNCHANGED <<now, rawCache, enrichCache, run, writes, units>>

\* Call k after one of its batches changed: Promise.all, and when call k returns
\* to a handler, that handler's continuation.
Resume(k, c, rn0) ==
  LET rn == awaitAll(rn0)
      r == k[1]
  IN IF k[2] = "main" /\ rn.state = "done"
     THEN Proceed(r, AfterEnrich(c, req[r], rn))
     ELSE /\ run' = [run EXCEPT ![k] = rn]
          /\ req' = req

\* The pipeline of the item in slot p of call k settles with outcome o.
CompleteItem(k, p, o) ==
  /\ run[k].state = "running"
  /\ p \in DOMAIN run[k].slots
  /\ run[k].slots[p].st = "pending"
  /\ LET s == IF o.throws THEN Caught(enrichCache, run[k], p)
              ELSE Enriched(enrichCache, run[k], p, o.images)
     IN /\ enrichCache' = s.c
        /\ Resume(k, s.c, s.rn)
  /\ writes' = writes \cup {[req |-> k[1], kind |-> k[2], id |-> ItemAt(run[k], p).id]}
  /\ UNCHANGED <<now, rawCache, units>>

\* The inter-batch timer of call k fired: the next iteration of the loop.
NextBatch(k) ==
  /\ run[k].state = "delay"
  /\ Resume(k, enrichCache,
            [run[k] EXCEPT !.i = @ + batchSize, !.state = "running",
               !.slots = StartBatch(enrichCache, run[k].items, run[k].i + batchSize)])
  /\ UNCHANGED <<now, rawCache, enrichCache, writes, units>>

\* The clock advances.  (It is only ever compared with the timestamp of a stored
\* entry, so the time that passes before the first entry is stored is left out.)
Tick ==
  /\ now < MaxTime
  /\ rawCache # <<>>
  /\ now' = now + 1
  /\ UNCHANGED <<rawCache, enrichCache, req, run, writes, units>>

(* ------------------------------------------------------------ specification *)
Init ==
  /\ now = 0
  /\ rawCache = <<>>
  /\ enrichCache = <<>>
  /\ req = [r \in Reqs |-> IdleReq]
  /\ run = [k \in Runs |-> IdleRun]
  /\ writes = {}
  /\ pipe = <<>>
  /\ match = <<>>
  /\ cycle = <<>>
  /\ cart = <<>>

\* Within the bounds no call has more than batchSize items, so no inter-batch
\* timer is ever armed and NextBatch has no part in Next.
Next ==
  \/ \E r \in Reqs, page \in 1..MaxPage, pageSize \in 1..MaxPageSize :
       StartPage(r, page, pageSize)
  \/ \E r \in Reqs : StartMeta(r)
  \/ \E r \in Reqs, id \in LookupIds : StartItem(r, id)
  \/ \E r \in Reqs, u \in Upstreams : FetchOk(r, u)
  \/ \E r \in Reqs : FetchFail(r)
  \/ \E k \in Runs, p \in 1..batchSize, o \in Outcomes : CompleteItem(k, p, o)
  \/ Tick

Spec == Init /\ [][Next]_vars

TypeOK ==
  /\ now \in 0..MaxTime
  /\ \A r \in Reqs : req[r].pc \in {"idle", "fetching", "enriching", "done"}
  /\ \A k \in Runs : run[k].state \in {"idle", "running", "done"}

(* ------------------------------------------- serial requests, three of them *)
\* The same server taking three requests one after the other: a request is
\* taken up once the earlier ones have answered and their calls have returned.
\* The product lookups ask for an id that the source sells in one answer and
\* prices at 0 in the other, or for an unknown id.
MaxSerialReq == 3

SerialReqs == 1..MaxSerialReq
SerialLookupIds == {"e", "zz"}

Quiet(r) ==
  /\ req[r].pc = "done"
  /\ run[<<r, "main">>].state # "running"
  /\ run[<<r, "pre">>].state # "running"

Serial(r) == \A r2 \in 1..(r - 1) : Quiet(r2)

InitSerial ==
  /\ now = 0
  /\ rawCache = <<>>
  /\ enrichCache = <<>>
  /\ req = [r \in SerialReqs |-> IdleReq]
  /\ run = [k \in SerialReqs \X {"main", "pre"} |-> IdleRun]
  /\ writes = {}
  /\ pipe = <<>>
  /\ match = <<>>
  /\ cycle = <<>>
  /\ cart = <<>>

NextSerial ==
  \/ \E r \in SerialReqs, page \in 1..MaxPage, pageSize \in 1..MaxPageSize :
       Serial(r) /\ StartPage(r, page, pageSize)
  \/ \E r \in SerialReqs, id \in SerialLookupIds : Serial(r) /\ StartItem(r, id)
  \/ \E r \in SerialReqs, u \in Upstreams : FetchOk(r, u)
  \/ \E r \in SerialReqs : FetchFail(r)
  \/ \E k \in SerialReqs \X {"main", "pre"}, p \in 1..batchSize, o \in Outcomes :
       CompleteItem(k, p, o)
  \/ Tick

SpecSerial == InitSerial /\ [][NextSerial]_vars

(* ------------------------------------------------ one page of eleven items *)
\* The same server answering one request for a page of more than batchSize
\* items: the awaited enrichItemsBatch call has a second batch.
MaxBatchItems == 11

BigUpstream ==
  [n \in 1..MaxBatchItems |->
     CloverItem(<<"a", "b", "c", "d", "e", "f", "g", "h", "i", "j", "k", "l">>[n],
                Num(100), Undefined)]

NextLoop ==
  \/ StartPage(1, 1, MaxBatchItems)
  \/ FetchOk(1, BigUpstream)
  \/ \E p \in 1..batchSize, o \in Outcomes : CompleteItem(<<1, "main">>, p, o)
  \/ NextBatch(<<1, "main">>)

SpecBatch == Init /\ [][NextLoop]_vars

(* ----------------------------------------------------------- findBestMatch *)
\* A string is a sequence of characters; an absent name, brand or model reads
\* as the empty string (String(x || '')).  imageUrl is <<>> (undefined) or
\* <<url>>; images is <<>> (undefined) or <<list of urls>>.
toLowerCase(s) ==
  [i \in 1..Len(s) |-> IF s[i] = "A" THEN "a" ELSE IF s[i] = "B" THEN "b" ELSE s[i]]

includes(s, w) == \E i \in 0..(Len(s) - Len(w)) : SubSeq(s, i + 1, i + Len(w)) = w

\* s.split(/\s+/).filter(Boolean)
RECURSIVE splitWords(_)
splitWords(s) ==
  IF s = <<>> THEN <<>>
  ELSE IF Head(s) = " " THEN splitWords(Tail(s))
  ELSE LET n == CHOOSE n \in 1..Len(s) :
                  /\ \A i \in 1..n : s[i] # " "
                  /\ n = Len(s) \/ s[n + 1] = " "
       IN <<SubSeq(s, 1, n)>> \o splitWords(SubSeq(s, n + 1, Len(s)))

\* A JavaScript optional string used as a condition.
Truthy(x) == x # <<>> /\ x[1] # ""

hasImages(product) ==
  Truthy(product.imageUrl) \/ (product.images # <<>> /\ Len(product.images[1]) > 0)

RECURSIVE wordScore(_, _)
wordScore(product, queryWords) ==
  IF queryWords = <<>> THEN 0
  ELSE LET word == Head(queryWords)
       IN (IF includes(toLowerCase(product.name), word) THEN 2 ELSE 0)
          + (IF includes(toLowerCase(product.brand), word) THEN 3 ELSE 0)
          + (IF includes(toLowerCase(product.model), word) THEN 3 ELSE 0)
          + wordScore(product, Tail(queryWords))

scoreOf(product, queryWords) ==
  wordScore(product, queryWords) + (IF hasImages(product) THEN 5 ELSE 0)

\* An unstable sort: x goes before the elements of its score.
insertBeforeEqual(sorted, x) ==
  LET n == Cardinality({i \in 1..Len(sorted) : sorted[i].score > x.score})
  IN SubSeq(sorted, 1, n) \o <<x>> \o SubSeq(sorted, n + 1, Len(sorted))

\* x inserted into a list sorted by descending score, after the elements of
\* its score (Array.prototype.sort is stable).
insertByScore(sorted, x) ==
  LET n == Cardinality({i \in 1..Len(sorted) : sorted[i].score >= x.score})
  IN SubSeq(sorted, 1, n) \o <<x>> \o SubSeq(sorted, n + 1, Len(sorted))

\* scored.sort((a, b) => b.score - a.score)
RECURSIVE sortByScore(_)
sortByScore(scored) ==
  IF scored = <<>> THEN <<>>
  ELSE insertByScore(sortByScore(SubSeq(scored, 1, Len(scored) - 1)),
                     scored[Len(scored)])

\* The result is <<>> (null) or <<product>>.
findBestMatch(searchQuery, products) ==
  IF Len(products) = 0 THEN <<>>
  ELSE IF Len(products) = 1 THEN <<products[1]>>
  ELSE LET queryWords == splitWords(toLowerCase(searchQuery))
           scored == [i \in 1..Len(products) |->
                        [product |-> products[i],
                         score |-> scoreOf(products[i], queryWords)]]
       IN <<sortByScore(scored)[1].product>>

\* The calls of findBestMatch that are followed: the queries and the search
\* results they are made with.
MaxProducts == 3

KicksDBProduct(i, n, b, m, u, im) ==
  [id |-> i, name |-> n, brand |-> b, model |-> m, imageUrl |-> u, images |-> im]

Candidates ==
  { KicksDBProduct(1, <<"a", "b">>, <<>>, <<>>, <<>>, <<>>),
    KicksDBProduct(2, <<"A", "B">>, <<>>, <<>>, <<>>, <<>>),
    KicksDBProduct(3, <<>>, <<"a">>, <<>>, <<>>, << <<>> >>),
    KicksDBProduct(4, <<"b">>, <<>>, <<"a", " ", "b">>, <<"">>, <<>>),
    KicksDBProduct(5, <<"b">>, <<>>, <<>>, <<"u1">>, <<>>),
    KicksDBProduct(6, <<"B">>, <<>>, <<>>, <<>>, << <<"u2", "u3">> >>) }

Queries ==
  { <<>>, <<"a">>, <<"A", "B">>, <<"a", " ", "b">>, <<" ", "b", " ", " ", "b">> }

ProductLists == UNION {[1..n -> Candidates] : n \in 0..MaxProducts}

InitMatch ==
  /\ now = 0
  /\ rawCache = <<>>
  /\ enrichCache = <<>>
  /\ req = <<>>
  /\ run = <<>>
  /\ writes = {}
  /\ pipe = <<>>
  /\ cycle = <<>>
  /\ cart = <<>>
  /\ match \in {[pc |-> "called", searchQuery |-> q, products |-> ps, result |-> <<>>] :
                  q \in Queries, ps \in ProductLists}

ReturnMatch ==
  /\ match.pc = "called"
  /\ match' = [match EXCEPT !.pc = "returned",
                            !.result = findBestMatch(match.searchQuery, match.products)]
  /\ UNCHANGED <<server, pipe, cycle, cart>>

NextMatch == ReturnMatch

SpecMatch == InitMatch /\ [][NextMatch]_vars

(* ------------------------------------------- enrichInventoryItem by stages *)
\* One call of enrichInventoryItem followed through its awaits: the name
\* improvement (HuggingFace), the catalogue search, findBestMatch, the image
\* search (Unsplash).  Names, brands, models, sizes and queries are strings
\* (sequences of characters), image urls are atoms.

ItemNames == { <<"a">>, <<"b">> }
ImprovedNames == { <<"a">>, <<"A", "B">>, <<"b">> }

\* String.prototype.trim
RECURSIVE trimStart(_)
trimStart(s) == IF s # <<>> /\ Head(s) = " " THEN trimStart(Tail(s)) ELSE s

RECURSIVE trimEnd(_)
trimEnd(s) ==
  IF s # <<>> /\ s[Len(s)] = " " THEN trimEnd(SubSeq(s, 1, Len(s) - 1)) ELSE s

trim(s) == trimEnd(trimStart(s))

\* What the name-improvement request may end in: the fetch throws (network
\* error, timeout), a status that is not ok, a body that is not JSON, JSON of
\* another shape, generated_text that is not a string, generated_text.
GeneratedTexts ==
  { <<>>, <<" ">> } \cup ImprovedNames \cup {<<" ">> \o n \o <<" ">> : n \in ImprovedNames}

HfAnswers ==
  {[kind |-> "throws"], [kind |-> "badjson"], [kind |-> "object"],
   [kind |-> "emptyarray"], [kind |-> "number"]}
  \cup {[kind |-> "status", status |-> st] : st \in {404, 410, 503, 500}}
  \cup {[kind |-> "text", text |-> t] : t \in GeneratedTexts}

\* The failure answers return another name.
improveProductNameServerLeaky(originalName, a) ==
  IF a.kind = "text" /\ trim(a.text) # <<>> /\ trim(a.text) # originalName
  THEN trim(a.text)
  ELSE IF a.kind = "status" THEN <<"b">> \o originalName
  ELSE originalName

\* improveProductNameServer after its fetch ended in a; every throw inside the
\* try (the fetch, response.json(), trim of a non-string) is caught.
improveProductNameServer(originalName, a) ==
  IF a.kind = "text" /\ a.text # <<>>
     /\ trim(a.text) # <<>> /\ trim(a.text) # originalName
  THEN trim(a.text)
  ELSE originalName

\* improveProductName with an API key, after improveProductNameServer returned.
improveProductName(originalName, improved) ==
  IF improved # <<>> /\ improved # originalName THEN improved ELSE originalName

\* What the image request may end in: the fetch throws, a status that is not
\* ok, a body that is not JSON, no results array, or results, each with a
\* regular url, a small url or none.
UnsplashUrls(r, sm) == [regular |-> r, small |-> sm]

UnsplashAnswers ==
  {[kind |-> "throws"], [kind |-> "status"], [kind |-> "badjson"], [kind |-> "noresults"]}
  \cup {[kind |-> "results", results |-> rs] :
          rs \in { <<>>, <<UnsplashUrls(<<>>, <<>>)>>,
                   <<UnsplashUrls(<<"r1">>, <<"s1">>), UnsplashUrls(<<>>, <<"s2">>)>>,
                   <<UnsplashUrls(<<>>, <<>>), UnsplashUrls(<<"r2">>, <<>>)>> }}

\* searchImagesUnsplash with an API key, after its fetch ended in a.
searchImagesUnsplash(a) ==
  IF a.kind = "results"
  THEN LET urls == [i \in 1..Len(a.results) |->
                      IF Truthy(a.results[i].regular) THEN a.results[i].regular
                      ELSE a.results[i].small]
           kept == SelectSeq(urls, Truthy)
       IN [i \in 1..Len(kept) |-> kept[i][1]]
  ELSE <<>>

searchImagesFree == <<>>

\* searchProductImages after searchImagesUnsplash returned unsplashResults.
searchProductImages(unsplashResults) ==
  IF Len(unsplashResults) > 0 THEN unsplashResults
  ELSE IF Len(searchImagesFree) > 0 THEN searchImagesFree
  ELSE <<>>

\* The catalogue search of this revision answers with no products.
searchSneaksAPIServer == <<>>

\* The answers of the catalogue search the call is followed with: the one of
\* this revision, and answers with candidates.
CatalogResults ==
  { searchSneaksAPIServer,
    <<KicksDBProduct(1, <<"a", "b">>, <<>>, <<>>, <<>>, <<>>)>>,
    <<KicksDBProduct(3, <<>>, <<"a">>, <<>>, <<>>, << <<>> >>)>>,
    <<KicksDBProduct(4, <<"b">>, <<>>, <<"a", " ", "b">>, <<"">>, <<>>)>>,
    <<KicksDBProduct(5, <<"b">>, <<>>, <<>>, <<"u1">>, <<>>)>>,
    <<KicksDBProduct(6, <<"B">>, <<>>, <<>>, <<>>, << <<"u2", "u3">> >>),
      KicksDBProduct(1, <<"a", "b">>, <<>>, <<>>, <<>>, <<>>)>>,
    <<KicksDBProduct(7, <<"b">>, <<"b">>, <<>>, <<"u4">>, << <<"u5">> >>)>> }

\* a || b for strings.
Or(a, b) == IF a # <<>> THEN a ELSE b

improvedSearchQueryOf(name, improvedName) ==
  IF improvedName # name
  THEN Or(parseShoeName(improvedName).searchQuery, parseShoeName(name).searchQuery)
  ELSE parseShoeName(name).searchQuery

\* imageUrl and images taken from bestMatch (<<>> or <<product>>).
bestMatchImages(bestMatch) ==
  IF bestMatch = <<>> THEN [imageUrl |-> <<>>, images |-> <<>>]
  ELSE [imageUrl |->
          IF Truthy(bestMatch[1].imageUrl) THEN bestMatch[1].imageUrl
          ELSE IF bestMatch[1].images # <<>> /\ Len(bestMatch[1].images[1]) > 0
               THEN <<bestMatch[1].images[1][1]>>
               ELSE <<>>,
        images |-> bestMatch[1].images]

\* if (!imageUrl && !images): an empty array is not falsy.
needsImageSearch(im) == ~Truthy(im.imageUrl) /\ im.images = <<>>

\* imageUrl and images after the image search returned searchImages.
withSearchImages(im, searchImages) ==
  IF Len(searchImages) > 0
  THEN [imageUrl |-> <<searchImages[1]>>, images |-> <<searchImages>>]
  ELSE im

\* matched tells only whether a candidate was selected.
enrichedItemCandidateOnly(item, improvedName, improvedSearchQuery, bestMatch, im) ==
  LET parsed == parseShoeName(item.name)
  IN [ id |-> item.id, name |-> Or(improvedName, item.name),
       originalName |-> item.name,
       brand |-> parsed.brand, model |-> parsed.model, size |-> parsed.size,
       price |-> item.price, stockCount |-> item.stockCount,
       imageUrl |-> im.imageUrl, images |-> im.images,
       matched |-> bestMatch # <<>>, searchQuery |-> improvedSearchQuery ]

\* The item enrichInventoryItem returns.
enrichedItem(item, improvedName, improvedSearchQuery, bestMatch, im) ==
  LET parsed == parseShoeName(item.name)
  IN IF bestMatch # <<>> \/ Truthy(im.imageUrl)
     THEN [ id |-> item.id,
            name |-> Or(IF bestMatch # <<>> THEN bestMatch[1].name ELSE <<>>,
                        Or(improvedName, Or(parsed.model, item.name))),
            originalName |-> item.name,
            brand |-> Or(parsed.brand, IF bestMatch # <<>> THEN bestMatch[1].brand ELSE <<>>),
            model |-> Or(parsed.model, IF bestMatch # <<>> THEN bestMatch[1].model ELSE <<>>),
            size |-> parsed.size,
            price |-> item.price, stockCount |-> item.stockCount,
            imageUrl |-> im.imageUrl, images |-> im.images,
            matched |-> TRUE, searchQuery |-> improvedSearchQuery ]
     ELSE [ id |-> item.id,
            name |-> Or(improvedName, item.name),
            originalName |-> item.name,
            brand |-> parsed.brand, model |-> parsed.model, size |-> parsed.size,
            price |-> item.price, stockCount |-> item.stockCount,
            imageUrl |-> <<>>, images |-> <<>>,
            matched |-> FALSE, searchQuery |-> improvedSearchQuery ]

\* The call that is followed: fn is enrichInventoryItem(item) or a direct
\* searchImagesUnsplash(query); hfKey and unsplashKey tell whether the API keys
\* are configured; products is what the catalogue search answers; calls lists
\* the network requests made and the searchProductImages calls; hfAnswer and
\* unsplashAnswer keep what the two requests ended in.
PipeCalls ==
  {[fn |-> f, pc |-> "called", hfKey |-> hk, unsplashKey |-> uk,
    item |-> [id |-> "x", name |-> n, price |-> Num(100), stockCount |-> Undefined],
    products |-> ps, improvedName |-> <<>>, improvedSearchQuery |-> <<>>,
    bestMatch |-> <<>>, searchImages |-> <<>>, calls |-> <<>>, result |-> <<>>,
    hfAnswer |-> <<>>, unsplashAnswer |-> <<>>] :
     f \in {"enrichInventoryItem"}, hk \in BOOLEAN, uk \in BOOLEAN, n \in ItemNames,
     ps \in CatalogResults}
  \cup
  {[fn |-> "searchImagesUnsplash", pc |-> "called", hfKey |-> FALSE, unsplashKey |-> uk,
    item |-> [id |-> "x", name |-> n, price |-> Num(100), stockCount |-> Undefined],
    products |-> <<>>, improvedName |-> <<>>, improvedSearchQuery |-> <<>>,
    bestMatch |-> <<>>, searchImages |-> <<>>, calls |-> <<>>, result |-> <<>>,
    hfAnswer |-> <<>>, unsplashAnswer |-> <<>>] :
     uk \in BOOLEAN, n \in ItemNames}

SneakerShoe == <<" ", "s", "n", "e", "a", "k", "e", "r", " ", "s", "h", "o", "e">>

UnsplashRequest(query) == [to |-> "unsplash", query |-> query \o SneakerShoe]

\* enrichInventoryItem returns.
Finish(p, searchImages) ==
  LET im == withSearchImages(bestMatchImages(p.bestMatch), searchImages)
  IN [p EXCEPT !.pc = "done", !.searchImages = searchImages,
        !.result = <<enrichedItem(p.item, p.improvedName, p.improvedSearchQuery,
                                  p.bestMatch, im)>>]

\* enrichInventoryItem once improveProductName returned improvedName: the
\* catalogue search, findBestMatch, and the image search if it is needed.
AfterName(p0, improvedName) ==
  LET q == improvedSearchQueryOf(p0.item.name, improvedName)
      bestMatch == findBestMatch(q, p0.products)
      p == [p0 EXCEPT !.improvedName = improvedName, !.improvedSearchQuery = q,
                      !.bestMatch = bestMatch,
                      !.calls = @ \o <<[to |-> "searchSneaksAPIServer", query |-> q]>>]
  IN IF needsImageSearch(bestMatchImages(bestMatch))
     THEN LET ps == [p EXCEPT !.calls = @ \o <<[to |-> "searchProductImages", query |-> q]>>]
          IN IF p.unsplashKey
             THEN [ps EXCEPT !.pc = "searching", !.calls = @ \o <<UnsplashRequest(q)>>]
             ELSE Finish(ps, searchProductImages(<<>>))
     ELSE Finish(p, <<>>)

InitPipe ==
  /\ now = 0
  /\ rawCache = <<>>
  /\ enrichCache = <<>>
  /\ req = <<>>
  /\ run = <<>>
  /\ writes = {}
  /\ match = <<>>
  /\ cycle = <<>>
  /\ cart = <<>>
  /\ pipe \in PipeCalls

\* enrichInventoryItem(item) up to its first network request.
CallEnrich ==
  /\ pipe.fn = "enrichInventoryItem" /\ pipe.pc = "called"
  /\ pipe' = IF pipe.hfKey
             THEN [pipe EXCEPT !.pc = "improving",
                     !.calls = @ \o <<[to |-> "huggingface", query |-> pipe.item.name]>>]
             ELSE AfterName(pipe, pipe.item.name)
  /\ UNCHANGED <<server, match, cycle, cart>>

\* The name-improvement request ended in a.
HfAnswer(a) ==
  /\ pipe.pc = "improving"
  /\ pipe' = AfterName([pipe EXCEPT !.hfAnswer = <<a>>],
               improveProductName(pipe.item.name,
                                  improveProductNameServer(pipe.item.name, a)))
  /\ UNCHANGED <<server, match, cycle, cart>>

\* No check of the API key: the request is made in any case.
CallUnsplashUnchecked ==
  /\ pipe.fn = "searchImagesUnsplash" /\ pipe.pc = "called"
  /\ pipe' = [pipe EXCEPT !.pc = "searching",
                          !.calls = @ \o <<UnsplashRequest(pipe.item.name)>>]
  /\ UNCHANGED <<server, match, cycle, cart>>

\* searchImagesUnsplash(query) called on its own, up to its network request.
CallUnsplash ==
  /\ pipe.fn = "searchImagesUnsplash" /\ pipe.pc = "called"
  /\ pipe' = IF pipe.unsplashKey
             THEN [pipe EXCEPT !.pc = "searching",
                               !.calls = @ \o <<UnsplashRequest(pipe.item.name)>>]
             ELSE [pipe EXCEPT !.pc = "done"]
  /\ UNCHANGED <<server, match, cycle, cart>>

\* The image request ended in a.
UnsplashAnswer(a) ==
  /\ pipe.pc = "searching"
  /\ pipe' = IF pipe.fn = "searchImagesUnsplash"
             THEN [pipe EXCEPT !.pc = "done", !.unsplashAnswer = <<a>>,
                               !.searchImages = searchImagesUnsplash(a)]
             ELSE Finish([pipe EXCEPT !.unsplashAnswer = <<a>>],
                         searchProductImages(searchImagesUnsplash(a)))
  /\ UNCHANGED <<server, match, cycle, cart>>

NextPipe ==
  \/ CallEnrich
  \/ \E a \in HfAnswers : HfAnswer(a)
  \/ CallUnsplash
  \/ \E a \in UnsplashAnswers : UnsplashAnswer(a)

SpecPipe == InitPipe /\ [][NextPipe]_vars

(* ------------------------------------- fetchCloverInventoryInternal (clover) *)
\* One fetch cycle of the inventory source, followed request by request.  The
\* source is the environment: a behaviour of the source says which requests
\* fail and, for the page at each position, how many items it has and whether
\* it carries a next-page url.  The items of a page are kept as one chunk
\* [page, len] standing for len consecutive items of that page.
maxPages == 100    \* clover-api.ts:165
limit == 1000      \* clover-api.ts:158, 174

MorePages == 101   \* a source with more pages than maxPages
ShortLen == 2      \* the size of a page smaller than limit

\* A url of the items endpoint: with or without the limit parameter, and the
\* position in the source's listing it asks for.
Url(l, p) == [limit |-> l, page |-> p]
initialUrl == Url(TRUE, 1)
urlWithoutLimit == Url(FALSE, 1)

\* The behaviours of the source: the merchant check passes or not, the first
\* request fails with the limit parameter and/or without it, the listing has
\* pages pages (every page but the last carries a next url), page shortAt is
\* smaller than limit (0: none), the request for page failAt fails (0: none).
Sources ==
  {src \in [verifyOk : BOOLEAN, limitFails : BOOLEAN, plainFails : BOOLEAN,
            pages : {1, 2, 3, MorePages}, shortAt : 0..3, failAt : {0, 2, 3}] :
     /\ src.shortAt <= src.pages
     /\ src.failAt <= src.pages
     /\ ~src.verifyOk => (~src.limitFails /\ ~src.plainFails /\ src.pages = 1
                            /\ src.shortAt = 0 /\ src.failAt = 0)
     /\ src.pages = MorePages => src.failAt = 0 /\ src.shortAt \in {0, 3}}

PageLen(src, p) == IF p = src.shortAt THEN ShortLen ELSE limit

\* items.length
length(items) == IF items = <<>> THEN 0 ELSE items[1].len

\* fetchCloverInventoryPage(url): throws, or the page's items and next url.
fetchCloverInventoryPage(src, url) ==
  IF \/ url.page = 1 /\ url.limit /\ src.limitFails
     \/ url.page = 1 /\ ~url.limit /\ src.plainFails
     \/ url.page = src.failAt
  THEN [ok |-> FALSE, items |-> <<>>, nextUrl |-> <<>>]
  ELSE [ok |-> TRUE,
        items |-> <<[page |-> url.page, len |-> PageLen(src, url.page)]>>,
        nextUrl |-> IF url.page < src.pages
                    THEN <<Url(url.limit, url.page + 1)>> ELSE <<>>]

\* The loop's locals, the requests made so far (calls: url and whether the
\* request succeeded), and the number of merchant checks made.
CycleStart(src) ==
  [source |-> src, pc |-> "verify", currentUrl |-> initialUrl, pageCount |-> 0,
   useLimit |-> TRUE, allItems |-> <<>>, calls |-> <<>>, verifications |-> 0,
   result |-> <<>>]

\* No page cap.
loopNoCap(c) == [c EXCEPT !.pc = "fetch"]

\* The while condition, evaluated with the loop's locals: the next request, or
\* the return of allItems.
loop(c) ==
  IF c.pageCount < maxPages
  THEN [c EXCEPT !.pc = "fetch"]
  ELSE [c EXCEPT !.pc = "returned", !.result = <<c.allItems>>]

\* The try block after the page arrived: push, the two break tests, the next
\* url, and the delay when the loop goes on.
afterPage(c, a) ==
  LET c1 == [c EXCEPT !.allItems = @ \o a.items]
  IN IF (c.useLimit /\ length(a.items) < limit) \/ a.nextUrl = <<>>
     THEN [c1 EXCEPT !.pc = "returned", !.result = <<c1.allItems>>]
     ELSE LET c2 == [c1 EXCEPT !.currentUrl = a.nextUrl[1], !.pageCount = @ + 1]
          IN IF c2.pageCount < maxPages
             THEN [c2 EXCEPT !.pc = "delay"]
             ELSE loop(c2)

\* The retry is not limited to the request with the limit parameter.
afterErrorRetriesFirstPage(c) ==
  IF c.pageCount = 0
  THEN [c EXCEPT !.useLimit = FALSE, !.currentUrl = urlWithoutLimit, !.pc = "fetch"]
  ELSE [c EXCEPT !.pc = "thrown"]

\* The catch of the page request: the first page with the limit parameter is
\* retried without it, anything else is rethrown.
afterError(c) ==
  IF c.pageCount = 0 /\ c.useLimit /\ c.currentUrl.limit
  THEN [c EXCEPT !.useLimit = FALSE, !.currentUrl = urlWithoutLimit, !.pc = "fetch"]
  ELSE [c EXCEPT !.pc = "thrown"]

InitCycle ==
  /\ now = 0
  /\ rawCache = <<>>
  /\ enrichCache = <<>>
  /\ req = <<>>
  /\ run = <<>>
  /\ writes = {}
  /\ pipe = <<>>
  /\ match = <<>>
  /\ cart = <<>>
  /\ cycle \in {CycleStart(src) : src \in Sources}

\* verifyCloverConnection answered.
Verified ==
  /\ cycle.pc = "verify"
  /\ cycle' = [cycle EXCEPT !.verifications = @ + 1,
                 !.pc = IF cycle.source.verifyOk THEN "fetch" ELSE "thrown"]
  /\ UNCHANGED <<server, pipe, match, cart>>

\* The page request resolved.
PageOk ==
  /\ cycle.pc = "fetch"
  /\ LET a == fetchCloverInventoryPage(cycle.source, cycle.currentUrl)
     IN /\ a.ok
        /\ cycle' = afterPage([cycle EXCEPT !.calls =
                                 Append(@, [url |-> cycle.currentUrl, ok |-> TRUE])], a)
  /\ UNCHANGED <<server, pipe, match, cart>>

\* The page request rejected.
PageFail ==
  /\ cycle.pc = "fetch"
  /\ LET a == fetchCloverInventoryPage(cycle.source, cycle.currentUrl)
     IN /\ ~a.ok
        /\ cycle' = afterError([cycle EXCEPT !.calls =
                                  Append(@, [url |-> cycle.currentUrl, ok |-> FALSE])])
  /\ UNCHANGED <<server, pipe, match, cart>>

\* The delay between two pages elapsed.
PageDelay ==
  /\ cycle.pc = "delay"
  /\ cycle' = loop(cycle)
  /\ UNCHANGED <<server, pipe, match, cart>>

NextCycle == Verified \/ PageOk \/ PageFail \/ PageDelay

SpecCycle == InitCycle /\ [][NextCycle]_vars

\* Every request is answered and every timer fires.
SpecCycleFair == InitCycle /\ [][NextCycle]_vars /\ WF_vars(NextCycle)

(* ------------------------------------------------------------ cart routes *)
\* The cart endpoints: GET and DELETE /api/cart/$cartId, PUT and DELETE
\* /api/cart/$cartId/items/$itemId, POST /api/cart/$cartId/items, and GET
\* /api/cart[?cartId=].  A step is the code between two awaits of a handler.
\* The cart store (cart-service) is the environment's database: a map from cart
\* id to the cart's owner (userId), its session (sessionId) and the quantity of
\* the one item followed (0: not in the cart).
MaxCartReq == 2    \* cart requests that run (and interleave) in a behaviour
MaxQty == 2        \* quantities range over 0..MaxQty

CartReqs == 1..MaxCartReq
Endpoints == {"GET", "DELETE", "PUTitem", "DELETEitem", "POSTitem", "GETmine"}

\* Who sends a request: the authenticated user, if any, and the session cookie,
\* if any.
Requesters == [userId : {<<>>, <<"u1">>, <<"u2">>}, sessionId : {<<>>, <<"s2">>}]

Cart(i, u, sn, q) == [id |-> i, userId |-> u, sessionId |-> sn, qty |-> q]

\* A cart of user u1 created in the browser of session s2, and the cart of
\* that session from before the login.
InitialCarts ==
  [i \in {"c1", "c2"} |->
     IF i = "c1" THEN Cart("c1", <<"u1">>, <<"s2">>, 1)
     ELSE Cart("c2", <<>>, <<"s2">>, 1)]

\* The cartId of a request: a user's cart, a session's cart, none stored.
CartIdParams == {"c1", "c2", "zz"}

IdleCartReq ==
  [ep |-> "none", pc |-> "idle", who |-> [userId |-> <<>>, sessionId |-> <<>>],
   cartId |-> <<>>, quantity |-> 0, existing |-> <<>>, resp |-> <<>>]

\* cart-service
getCart(store, cartId) == IF cartId \in DOMAIN store THEN <<store[cartId]>> ELSE <<>>

\* The cart of the user, or without a user the cart of the session that has no
\* user; a new cart when there is none.
getOrCreateCart(store, userId, sessionId, newId) ==
  LET own == {i \in DOMAIN store :
                IF userId # <<>> THEN store[i].userId = userId
                ELSE store[i].userId = <<>> /\ sessionId # <<>>
                     /\ store[i].sessionId = sessionId}
  IN IF own # {}
     THEN [store |-> store, cart |-> store[CHOOSE i \in own : TRUE]]
     ELSE LET new == Cart(newId, userId, sessionId, 0)
          IN [store |-> [i \in DOMAIN store \cup {newId} |->
                           IF i = newId THEN new ELSE store[i]],
              cart |-> new]

\* The mutating operations, on a cart that may have been deleted meanwhile.
mutate(store, ep, cartId, quantity) ==
  IF cartId \notin DOMAIN store THEN [store |-> store, status |-> 500]
  ELSE CASE ep = "DELETE" \/ ep = "DELETEitem" ->
              [store |-> [store EXCEPT ![cartId].qty = 0], status |-> 200]
         [] ep = "PUTitem" ->
              IF store[cartId].qty = 0 THEN [store |-> store, status |-> 400]
              ELSE [store |-> [store EXCEPT ![cartId].qty = quantity], status |-> 200]
         [] ep = "POSTitem" ->
              IF store[cartId].qty + quantity > MaxQty
              THEN [store |-> store, status |-> 400]
              ELSE [store |-> [store EXCEPT ![cartId].qty = @ + quantity],
                    status |-> 200]

\* The ownership check is left out.
forbiddenNever(c, userId) == FALSE

\* if (cart.userId && cart.userId !== userId): 403
forbidden(c, userId) == c.userId # <<>> /\ c.userId # userId

\* GET /api/cart?cartId=: may the cart found be returned to the requester
isAuthorized(existingCart, who) ==
  \/ who.userId # <<>> /\ existingCart.userId = who.userId
  \/ /\ who.userId = <<>>
     /\ existingCart.sessionId = who.sessionId
     /\ existingCart.userId = <<>>

Respond(q, status, c) == [q EXCEPT !.pc = "done", !.resp = <<[status |-> status, cart |-> c]>>]

InitCart ==
  /\ now = 0
  /\ rawCache = <<>>
  /\ enrichCache = <<>>
  /\ req = <<>>
  /\ run = <<>>
  /\ writes = {}
  /\ pipe = <<>>
  /\ match = <<>>
  /\ cycle = <<>>
  /\ cart = [store |-> InitialCarts, reqs |-> [r \in CartReqs |-> IdleCartReq],
             ops |-> {}]

\* A request arrives: the body is validated, and the handler awaits its first
\* call (getCart, or getUserIdFromRequest for GET /api/cart).
CartStart(r, ep, who, cartId, quantity) ==
  /\ cart.reqs[r].pc = "idle"
  /\ \A r2 \in 1..(r - 1) : cart.reqs[r2].pc # "idle"
  /\ LET q == [cart.reqs[r] EXCEPT !.ep = ep, !.who = who, !.cartId = cartId,
                                   !.quantity = quantity]
     IN cart' = [cart EXCEPT !.reqs[r] =
                   IF ep = "PUTitem" /\ quantity <= 0 THEN Respond(q, 400, <<>>)
                   ELSE IF ep = "GETmine" THEN [q EXCEPT !.pc = "auth"]
                   ELSE [q EXCEPT !.pc = "getCart"]]
  /\ UNCHANGED <<server, pipe, match, cycle>>

\* await getCart(cartId) returned.
CartRead(r) ==
  /\ cart.reqs[r].pc = "getCart"
  /\ LET q == cart.reqs[r]
         found == getCart(cart.store, q.cartId[1])
     IN cart' = [cart EXCEPT !.reqs[r] =
                   IF q.ep = "GETmine"
                   THEN IF found # <<>> /\ isAuthorized(found[1], q.who)
                        THEN Respond(q, 200, found)
                        ELSE [q EXCEPT !.pc = "own"]
                   ELSE IF found = <<>> THEN Respond(q, 404, <<>>)
                        ELSE [q EXCEPT !.pc = "auth", !.existing = found]]
  /\ UNCHANGED <<server, pipe, match, cycle>>

\* await getUserIdFromRequest(request) returned: the ownership check.
CartAuth(r) ==
  /\ cart.reqs[r].pc = "auth"
  /\ LET q == cart.reqs[r]
     IN cart' = [cart EXCEPT !.reqs[r] =
                   IF q.ep = "GETmine"
                   THEN [q EXCEPT !.pc = IF q.cartId # <<>> THEN "getCart" ELSE "own"]
                   ELSE IF forbidden(q.existing[1], q.who.userId)
                        THEN Respond(q, 403, <<>>)
                        ELSE IF q.ep = "GET" THEN Respond(q, 200, q.existing)
                        ELSE [q EXCEPT !.pc = "write"]]
  /\ UNCHANGED <<server, pipe, match, cycle>>

\* The awaited cart operation returned: clearCart, updateCartItemQuantity,
\* removeCartItem, addItemToCart, or getOrCreateCart for GET /api/cart.
CartWrite(r) ==
  /\ cart.reqs[r].pc \in {"write", "own"}
  /\ LET q == cart.reqs[r]
         own == getOrCreateCart(cart.store, q.who.userId, q.who.sessionId,
                                <<"n1", "n2">>[r])
         m == mutate(cart.store, q.ep, q.cartId[1], q.quantity)
     IN IF q.pc = "own"
        THEN cart' = [cart EXCEPT !.store = own.store,
                                  !.reqs[r] = Respond(q, 200, <<own.cart>>)]
        ELSE cart' = [cart EXCEPT !.store = m.store,
                        !.reqs[r] = Respond(q, m.status, <<>>),
                        !.ops = @ \cup {[req |-> r, ep |-> q.ep, cartId |-> q.cartId[1]]}]
  /\ UNCHANGED <<server, pipe, match, cycle>>

NextCart ==
  \/ \E r \in CartReqs, ep \in Endpoints \ {"GETmine"}, who \in Requesters,
        cartId \in CartIdParams, quantity \in 0..MaxQty :
       /\ quantity = 1 \/ ep \in {"PUTitem", "POSTitem"}
       /\ CartStart(r, ep, who, <<cartId>>, quantity)
  \/ \E r \in CartReqs, who \in Requesters, cartId \in {<<>>, <<"c1">>, <<"c2">>} :
       CartStart(r, "GETmine", who, cartId, 1)
  \/ \E r \in CartReqs : CartRead(r)
  \/ \E r \in CartReqs : CartAuth(r)
  \/ \E r \in CartReqs : CartWrite(r)

SpecCart == InitCart /\ [][NextCart]_vars

(* ================================================================ claims *)
SeqToSet(s) == {s[i] : i \in 1..Len(s)}
Absent(x) == x = Undefined \/ x = Null
NoImage(e) == e.matched = FALSE /\ e.imageUrl = <<>> /\ e.images = <<>>

(* ------------------------------------------------------------------- C1 *)
\* C1: batch isolation.  No enrichItemsBatch call rejects, and a call that has
\* returned holds one result per input item: at the position of an item whose
\* pipeline threw, the fallback item (matched = false, no imageUrl, no images,
\* the raw item's id, price and stockCount); at the position of an item whose
\* pipeline resolved, that pipeline's result; at the position of a cache hit, an
\* item of that id.
C1_BatchIsolation ==
  \A k \in Runs :
    /\ run[k].state # "rejected"
    /\ run[k].state = "done" =>
         /\ Len(run[k].out) = Len(run[k].items)
         /\ Len(run[k].how) = Len(run[k].items)
         /\ \A p \in 1..Len(run[k].items) :
              LET item == run[k].items[p]
                  e == run[k].out[p]
              IN /\ e.id = item.id
                 /\ run[k].how[p] = "fail" =>
                      /\ NoImage(e)
                      /\ e.price = item.price /\ e.stockCount = item.stockCount
                 /\ run[k].how[p] = "ok" =>
                      \E im \in ImageResults : e = enrichInventoryItem(item, im)

\* A call of two items has returned: the pipeline of exactly one of them threw,
\* the other's resolved.
C1_Witness ==
  \E k \in Runs :
    /\ run[k].state = "done"
    /\ Len(run[k].items) = 2
    /\ \E p, q \in 1..2 :
         /\ run[k].how[p] = "fail" /\ NoImage(run[k].out[p])
         /\ run[k].how[q] = "ok" /\ run[k].out[q].matched

(* ------------------------------------------------------------------- C2 *)
\* The place of input position p of a call in its batch slots or its output.
ServedFromCache(rn, p, v) ==
  IF rn.state = "running"
  THEN rn.slots[p].st = "hit" /\ rn.slots[p].res = <<v>>
  ELSE rn.how[p] = "hit" /\ rn.out[p] = v

\* C2: enrichment cache idempotence.  (a) Every item a returned call pushed is
\* cached under its id.  (b) A call that starts while an id of its input is
\* cached takes the cached item for it and starts no pipeline for that id.
\* (c) A cache hit is never turned into a pipeline run: it is pushed unchanged.
C2_CacheIdempotence ==
  /\ [](\A k \in Runs : run[k].state = "done" =>
          \A p \in 1..Len(run[k].items) : run[k].items[p].id \in DOMAIN enrichCache)
  /\ [][\A k \in Runs :
          /\ (run[k].state = "idle" /\ run'[k].state # "idle") =>
               \A p \in 1..Len(run'[k].items) :
                 LET id == run'[k].items[p].id
                 IN id \in DOMAIN enrichCache' =>
                      ServedFromCache(run'[k], p, enrichCache'[id])
          /\ run[k].state = "running" =>
               \A p \in 1..Len(run[k].slots) :
                 run[k].slots[p].st = "hit" =>
                   ServedFromCache(run'[k], p, run[k].slots[p].res[1])
       ]_vars

\* A call has returned an item from the cache, which an earlier call had put
\* there, next to an item it enriched itself.
C2_Witness ==
  \E k \in Runs :
    /\ run[k].state = "done"
    /\ \E p, q \in 1..Len(run[k].items) :
         /\ run[k].how[p] = "hit"
         /\ run[k].out[p] = enrichCache[run[k].items[p].id]
         /\ run[k].how[q] = "ok"

(* ------------------------------------------------------------------- C3 *)
\* C3: enrichItemsBatch preserves the order of its input.  The output of a call
\* that has returned has the length of the input and output[i].id = input[i].id
\* at every position i.
C3_OrderPreserved ==
  \A k \in Runs :
    run[k].state = "done" =>
      /\ Len(run[k].out) = Len(run[k].items)
      /\ \A p \in 1..Len(run[k].items) : run[k].out[p].id = run[k].items[p].id

\* One returned call had its items complete out of input order; another returned
\* call took an item from the cache and enriched an earlier-or-later one itself.
C3_Witness ==
  /\ \E k \in Runs :
       run[k].state = "done" /\ run[k].ooo /\ Len(run[k].items) = 2
  /\ \E k \in Runs :
       run[k].state = "done" /\ run[k].how = <<"ok", "hit">>

(* ------------------------------------------------------------------- C4 *)
\* The raw filter, in the words of the claim.
Retained(item) ==
  /\ ~Absent(item.price) /\ item.price[1] > 0
  /\ Absent(item.stockCount) \/ item.stockCount[1] > 0

RawLists ==
  {rawCache[i].data : i \in DOMAIN rawCache} \cup
  {req[r].raw : r \in {x \in Reqs : req[x].rawFrom \in {"cache", "fetch"}}}

\* C4: every list getRawInventory returned or stored holds only items with a
\* price > 0 and a stockCount that is absent, null or > 0, and it is an answer of
\* the source with exactly the items of price 0, missing price or stockCount <= 0
\* taken out (an item with stockCount undefined and price > 0 stays).
C4_RawFilter ==
  \A l \in RawLists :
    /\ \A i \in 1..Len(l) : Retained(l[i])
    /\ \E u \in Upstreams : l = SelectSeq(u, Retained)

\* The stored snapshot comes from the answer with price 0, missing price and
\* stock 0 in it: those are gone, the item with stockCount undefined is there.
C4_Witness ==
  /\ rawCache # <<>>
  /\ \E u \in Upstreams :
       /\ \E i \in 1..Len(u) : u[i].price = Num(0)
       /\ \E i \in 1..Len(u) : u[i].stockCount = Num(0)
       /\ rawCache[1].data = validItems(u)
  /\ \E i \in 1..Len(rawCache[1].data) :
       rawCache[1].data[i].stockCount = Undefined
  /\ \E r \in Reqs : req[r].rawFrom = "fetch" /\ req[r].raw = rawCache[1].data

(* ------------------------------------------------------------------- C5 *)
\* Handler r's getRawInventory call returns in this step.
RawReturns(r) == req[r].rawFrom = "none" /\ req'[r].rawFrom \in {"cache", "fetch"}

\* C5: all callers within one TTL window observe the same snapshot.  While a
\* stored snapshot has not expired it stays the stored snapshot, every
\* getRawInventory call that returns returns it, and no call starts an upstream
\* fetch.
C5_SameSnapshot ==
  [][getCachedRawInventory # <<>> =>
       /\ rawCache' = rawCache
       /\ \A r \in Reqs :
            /\ RawReturns(r) => req'[r].raw = getCachedRawInventory[1]
            /\ req[r].pc = "idle" => req'[r].pc # "fetching"
    ]_vars

(* ------------------------------------------------------------------- C6 *)
\* Handler r calls getRawInventory in this step.
RawCalled(r) ==
  /\ req[r].pc = "idle" /\ req'[r].pc # "idle"
  /\ ~(req'[r].kind = "item" /\ req'[r].id \in DOMAIN enrichCache)

\* C6: a failed upstream fetch is propagated and not cached.  (a) The step in
\* which the fetch of a call fails leaves the raw cache as it is and answers the
\* request with 500 and a message.  (b) A handler whose call failed got no
\* inventory and enriched nothing.  (c) After a failure, a call made while no
\* valid snapshot is stored starts the upstream fetch again.
C6_FailureNotCached ==
  /\ [](\A r \in Reqs : req[r].rawFrom = "failed" =>
          /\ req[r].pc = "done" /\ req[r].raw = <<>>
          /\ req[r].resp[1].status = 500 /\ "message" \in DOMAIN req[r].resp[1]
          /\ run[<<r, "main">>].state = "idle" /\ run[<<r, "pre">>].state = "idle")
  /\ [][\A r \in Reqs :
          /\ (req[r].pc = "fetching" /\ req'[r].rawFrom = "failed") =>
               rawCache' = rawCache
          /\ (/\ RawCalled(r)
              /\ \E r2 \in Reqs : req[r2].rawFrom = "failed"
              /\ getCachedRawInventory = <<>>) => req'[r].pc = "fetching"
       ]_vars

\* The first request was answered 500 with nothing stored, and the second one,
\* started after the failure, fetched the inventory from the source.
C6_Witness ==
  /\ req[1].rawFrom = "failed" /\ req[1].resp[1].status = 500
  /\ req[2].rawFrom = "fetch"
  /\ rawCache # <<>> /\ rawCache[1].data = req[2].raw

(* ------------------------------------------------------------------- C7 *)
\* The pipelines in flight for item id, in the calls rs.
PendingIn(rs, id) ==
  {kp \in Runs \X (1..batchSize) :
     LET rn == rs[kp[1]]
     IN /\ rn.state = "running"
        /\ kp[2] \in DOMAIN rn.slots
        /\ rn.slots[kp[2]].st = "pending"
        /\ ItemAt(rn, kp[2]).id = id}

FallbackCached(c, id) == id \in DOMAIN c /\ NoImage(c[id])

Max(a, b) == IF a > b THEN a ELSE b

\* ceil(n / d): the least m with m * d >= n.
CeilDiv(n, d) == CHOOSE m \in 0..n : m * d >= n /\ (m > 0 => (m - 1) * d < n)

PageResponses == {r \in Reqs : req[r].kind = "page" /\ req[r].pc = "done"
                                 /\ req[r].rawFrom \in {"cache", "fetch"}}

\* C8: page shape.  A page response for page >= 1, pageSize >= 1 over a snapshot
\* of n valid items has min(pageSize, max(0, n - (page-1)*pageSize)) items,
\* total = n, totalPages = ceil(n / pageSize) and hasMore = (page < totalPages);
\* page 1 of size 2 over 5 items has 2 items, hasMore true and totalPages 3.
C8_PageShape ==
  \A r \in PageResponses :
    LET q == req[r]
        n == Len(q.raw)
        res == q.resp[1]
    IN /\ res.status = 200
       /\ Len(res.items) = Min(q.pageSize, Max(0, n - (q.page - 1) * q.pageSize))
       /\ res.total = n
       /\ res.totalPages = CeilDiv(n, q.pageSize)
       /\ res.hasMore = (q.page < res.totalPages)
       /\ (q.page = 1 /\ q.pageSize = 2 /\ n = 5) =>
            Len(res.items) = 2 /\ res.hasMore /\ res.totalPages = 3

\* Page 1 of size 2 over 5 valid items was answered, and so was a page past
\* the end.
C8_Witness ==
  /\ \E r \in PageResponses :
       /\ req[r].page = 1 /\ req[r].pageSize = 2 /\ Len(req[r].raw) = 5
       /\ Len(req[r].resp[1].items) = 2 /\ req[r].resp[1].totalPages = 3
  /\ \E r \in PageResponses :
       /\ (req[r].page - 1) * req[r].pageSize >= Len(req[r].raw)
       /\ req[r].resp[1].items = <<>> /\ ~req[r].resp[1].hasMore

(* ------------------------------------------------------------------- C9 *)
\* The 0-based indices in handler r's snapshot of the items with id.
IndexOf(r, id) == {i \in 0..(Len(req[r].raw) - 1) : req[r].raw[i + 1].id = id}

InRange(r, id, lo, hi) == \E i \in IndexOf(r, id) : lo <= i /\ i < hi

\* C9: lazy page enrichment.  A page request awaits the enrichment of the raw
\* items at indices [(page-1)*pageSize, page*pageSize) only, its background call
\* takes the items of the next page [page*pageSize, min((page+1)*pageSize, n))
\* only, and every item the request put into the enrichment cache lies in the
\* range of the call that wrote it.
C9_LazyEnrichment ==
  \A r \in Reqs :
    req[r].kind = "page" =>
      LET q == req[r]
          n == Len(q.raw)
          lo == (q.page - 1) * q.pageSize
          hi == q.page * q.pageSize
          main == run[<<r, "main">>]
          pre == run[<<r, "pre">>]
      IN /\ main.state # "idle" =>
              main.items = [j \in 1..Max(0, Min(hi, n) - lo) |-> q.raw[lo + j]]
         /\ pre.state # "idle" =>
              /\ main.state = "done"
              /\ pre.items = [j \in 1..Max(0, Min(hi + q.pageSize, n) - hi) |-> q.raw[hi + j]]
         /\ q.resp # <<>> /\ q.rawFrom # "failed" => main.state = "done"
         /\ \A w \in writes :
              w.req = r =>
                IF w.kind = "main" THEN InRange(r, w.id, lo, hi)
                ELSE InRange(r, w.id, hi, Min(hi + q.pageSize, n))

\* Page 1 of size 2 over 5 items: both calls have returned, the request wrote
\* the first four items to the cache and the fifth is not cached.
C9_Witness ==
  \E r \in Reqs :
    /\ req[r].kind = "page" /\ req[r].page = 1 /\ req[r].pageSize = 2
    /\ Len(req[r].raw) = 5
    /\ run[<<r, "main">>].state = "done" /\ run[<<r, "pre">>].state = "done"
    /\ {w.id : w \in {x \in writes : x.req = r}} = {req[r].raw[i].id : i \in 1..4}
    /\ req[r].raw[5].id \notin DOMAIN enrichCache

(* ------------------------------------------------------------------ C10 *)
\* C10: the background prefetch is not awaited and is isolated.  (a) Whenever a
\* prefetch call exists, the page's response has been produced already, with
\* status 200.  (b) A response, once produced, never changes, whatever the
\* prefetch does afterwards.
C10_PrefetchIsolated ==
  /\ [](\A r \in Reqs :
          run[<<r, "pre">>].state # "idle" =>
            /\ req[r].pc = "done"
            /\ req[r].resp # <<>> /\ req[r].resp[1].status = 200
            /\ prefetches(req[r]))
  /\ [][\A r \in Reqs : req[r].resp # <<>> => req'[r].resp = req[r].resp]_vars

\* The response of a page is out (status 200) while its prefetch is still in
\* flight, one item of the prefetch having failed already.
C10_Witness ==
  \E r \in Reqs :
    /\ req[r].pc = "done" /\ req[r].resp[1].status = 200
    /\ run[<<r, "pre">>].state = "running"
    /\ \E p, q \in 1..Len(run[<<r, "pre">>].slots) :
         /\ run[<<r, "pre">>].slots[p].st = "fail"
         /\ run[<<r, "pre">>].slots[q].st = "pending"

(* ------------------------------------------------------------------ C11 *)
\* C11: an upstream item with price 0 reaches neither the output of
\* getRawInventory nor a page result.  Every item of every list getRawInventory
\* returned and every item of every page response has a price > 0 and a
\* stockCount that is absent, null or > 0, and every item of a page response
\* has the id of an item of the snapshot the page was sliced from.
C11_NoZeroPrice ==
  \A r \in Reqs :
    /\ \A item \in SeqToSet(req[r].raw) :
         /\ IsNum(item.price) /\ item.price[1] > 0
         /\ Absent(item.stockCount) \/ item.stockCount[1] > 0
    /\ r \in PageResponses =>
         \A e \in SeqToSet(req[r].resp[1].items) :
           /\ IsNum(e.price) /\ e.price[1] > 0
           /\ Absent(e.stockCount) \/ e.stockCount[1] > 0
           /\ \E item \in SeqToSet(req[r].raw) : item.id = e.id

\* Item e was enriched and cached while it had a price; then the source answered
\* with e at price 0, and a page of that snapshot was served: its items are not
\* e.
C11_Witness ==
  \E r \in PageResponses :
    /\ "e" \in DOMAIN enrichCache
    /\ \E u \in Upstreams :
         /\ \E x \in SeqToSet(u) : x.id = "e" /\ x.price = Num(0)
         /\ req[r].raw = validItems(u)
    /\ req[r].resp[1].items # <<>>
    /\ \A x \in SeqToSet(req[r].resp[1].items) : x.id # "e"

(* ------------------------------------------------------------------ C12 *)
\* The inventory at the moment product lookup q answers: the snapshot its
\* getRawInventory call returned, or, when it made no such call, the stored
\* snapshot if that is still valid.
InventoryOf(q) ==
  IF q.rawFrom \in {"cache", "fetch"} THEN <<q.raw>>
  ELSE IF q.rawFrom = "none" THEN getCachedRawInventory
  ELSE <<>>

\* C12: the status codes of the product lookup.  In the step in which a lookup
\* by id answers: 500 with a message if the upstream fetch failed; 404 if the
\* id is missing from the inventory; otherwise 404 if the product's stockCount
\* is present and <= 0, else 200 with the enriched product of that id.
C12_LookupStatus ==
  [][\A r \in DOMAIN req :
       (req[r].resp = <<>> /\ req'[r].resp # <<>> /\ req'[r].kind = "item") =>
         LET q == req'[r]
             res == q.resp[1]
             inv == InventoryOf(q)
         IN /\ q.rawFrom = "failed" =>
                 res.status = 500 /\ "message" \in DOMAIN res
            /\ inv # <<>> =>
                 IF \A x \in SeqToSet(inv[1]) : x.id # q.id
                 THEN res.status = 404
                 ELSE IF res.status = 200
                      THEN /\ res.product.id = q.id
                           /\ Absent(res.product.stockCount)
                                \/ res.product.stockCount[1] > 0
                      ELSE /\ res.status = 404
                           /\ q.id \in DOMAIN enrichCache'
                           /\ IsNum(enrichCache'[q.id].stockCount)
                           /\ enrichCache'[q.id].stockCount[1] <= 0
    ]_vars

(* ------------------------------------------------------------------ C15 *)
\* The whitespace-separated tokens of q, as the spans they occupy.
TokenSpans(q) ==
  {sp \in (1..Len(q)) \X (1..Len(q)) :
     /\ sp[1] <= sp[2]
     /\ \A k \in sp[1]..sp[2] : q[k] # " "
     /\ sp[1] = 1 \/ q[sp[1] - 1] = " "
     /\ sp[2] = Len(q) \/ q[sp[2] + 1] = " "}

IsSubstring(t, s) == \E i \in 1..(Len(s) + 1) : \E j \in (i - 1)..Len(s) : SubSeq(s, i, j) = t

\* The claimed score of candidate c for query q, the token and the fields read
\* through F.
ClaimedScore(c, q, F(_)) ==
  LET tok(sp) == F(SubSeq(q, sp[1], sp[2]))
      hits(field) == Cardinality({sp \in TokenSpans(q) : IsSubstring(tok(sp), F(field))})
  IN 2 * hits(c.name) + 3 * hits(c.brand) + 3 * hits(c.model)
     + (IF (c.imageUrl # <<>> /\ c.imageUrl[1] # "")
           \/ (c.images # <<>> /\ c.images[1] # <<>>) THEN 5 ELSE 0)

\* The earliest candidate of maximum claimed score.
FirstMax(ps, q, F(_)) ==
  CHOOSE i \in 1..Len(ps) :
    /\ \A j \in 1..Len(ps) : ClaimedScore(ps[j], q, F) <= ClaimedScore(ps[i], q, F)
    /\ \A j \in 1..(i - 1) : ClaimedScore(ps[j], q, F) < ClaimedScore(ps[i], q, F)

Verbatim(s) == s

\* C15 as claimed: findBestMatch returns the earliest candidate of maximum
\* score, the score counting +2, +3, +3 for every query token that is a
\* substring of the candidate's name, brand, model, and +5 for a candidate with
\* an imageUrl or at least one image.
C15_FirstMaxScore ==
  match # <<>> /\ match.pc = "returned" /\ match.products # <<>> =>
    match.result =
      <<match.products[FirstMax(match.products, match.searchQuery, Verbatim)]>>

\* C15, amended: as claimed, the tokens and the candidate's name, brand and
\* model compared in lower case; null for an empty candidate list.
C15_FirstMaxScoreLowerCase ==
  match # <<>> /\ match.pc = "returned" =>
    IF match.products = <<>> THEN match.result = <<>>
    ELSE match.result =
           <<match.products[FirstMax(match.products, match.searchQuery, toLowerCase)]>>

\* A call over three candidates of which the second and the third share the
\* maximum score returned the second.
C15_Witness ==
  /\ match # <<>> /\ match.pc = "returned" /\ Len(match.products) = 3
  /\ LET sc(i) == ClaimedScore(match.products[i], match.searchQuery, toLowerCase)
     IN /\ sc(1) < sc(2) /\ sc(2) = sc(3) /\ sc(2) > 5
        /\ match.products[2] # match.products[3]
        /\ match.result = <<match.products[2]>>

(* ------------------------------------------------------------------ C13 *)
\* An enrichInventoryItem call that has returned.
Enriched1 == pipe # <<>> /\ pipe.fn = "enrichInventoryItem" /\ pipe.pc = "done"

\* An imageUrl was resolved: the candidate's imageUrl, the first of its images,
\* or the first result of the image search.
ImageResolved ==
  \/ /\ pipe.bestMatch # <<>>
     /\ \/ pipe.bestMatch[1].imageUrl \notin {<<>>, <<"">>}
        \/ pipe.bestMatch[1].images \notin {<<>>, << <<>> >>}
  \/ pipe.searchImages # <<>>

\* C13: for every item enrichInventoryItem produces, matched is true iff a
\* candidate was selected or an imageUrl was resolved; an item with matched =
\* false has no imageUrl and no images; the fallback item has matched = false.
C13_MatchedIff ==
  Enriched1 =>
    LET e == pipe.result[1]
    IN /\ e.matched = (pipe.bestMatch # <<>> \/ ImageResolved)
       /\ ~e.matched => e.imageUrl = <<>> /\ e.images = <<>>
       /\ ~createFallbackItem(pipe.item).matched

\* No candidate, but the image search found images: matched is true.
C13_Witness ==
  /\ Enriched1 /\ pipe.bestMatch = <<>> /\ pipe.searchImages # <<>>
  /\ pipe.result[1].matched /\ pipe.result[1].imageUrl = <<pipe.searchImages[1]>>

(* ------------------------------------------------------------------ C14 *)
ImageSearchCalls == SelectSeq(pipe.calls, LAMBDA c : c.to = "searchProductImages")

HfFailed ==
  /\ pipe.hfAnswer # <<>>
  /\ LET a == pipe.hfAnswer[1]
     IN a.kind = "text" =>
          \A i \in 1..Len(a.text), j \in 1..Len(a.text) :
            (\A k \in 1..Len(a.text) : (k < i \/ k > j) => a.text[k] = " ") =>
              i > j \/ SubSeq(a.text, i, j) = pipe.item.name
                    \/ a.text[i] = " " \/ a.text[j] = " "

\* C16: a failed name improvement is not an item failure.  Without a
\* credential no request is made; without a credential or after any failed
\* request improveProductName returns the original name, and
\* enrichInventoryItem goes on with the searchQuery of the deterministic parse
\* and returns an item with that searchQuery.
C16_AiFailureSoft ==
  pipe # <<>> /\ pipe.fn = "enrichInventoryItem" /\ pipe.pc \notin {"called", "improving"} =>
    /\ ~pipe.hfKey => pipe.hfAnswer = <<>> /\ \A i \in 1..Len(pipe.calls) : pipe.calls[i].to # "huggingface"
    /\ (~pipe.hfKey \/ HfFailed) =>
         /\ pipe.improvedName = pipe.item.name
         /\ pipe.improvedSearchQuery = parseShoeName(pipe.item.name).searchQuery
         /\ pipe.pc \in {"searching", "done"}
         /\ pipe.pc = "done" =>
              /\ pipe.result # <<>>
              /\ pipe.result[1].searchQuery = parseShoeName(pipe.item.name).searchQuery

\* The model was loading (503); the item came back enriched with an image.
C16_Witness ==
  /\ Enriched1
  /\ pipe.hfAnswer = <<[kind |-> "status", status |-> 503]>>
  /\ pipe.improvedName = pipe.item.name
  /\ pipe.result[1].matched

(* ------------------------------------------------------------------ C17 *)
\* C17: the merge rule.  For brand, model, size and searchQuery of an enriched
\* item: the value parsed from the AI-improved name when the AI returned a
\* non-empty name different from the input and that value is non-empty;
\* otherwise the value parsed from the original name (unset if that is empty).
\* Stated for the calls whose catalogue search finds no candidate, as in this
\* revision, so that no field comes from a candidate.
C17_MergeRule ==
  Enriched1 /\ pipe.products = searchSneaksAPIServer =>
    LET e == pipe.result[1]
        det == parseShoeName(pipe.item.name)
        ai == parseShoeName(pipe.improvedName)
        improved == pipe.improvedName # <<>> /\ pipe.improvedName # pipe.item.name
        merged(f) == IF improved /\ ai[f] # <<>> THEN ai[f] ELSE det[f]
    IN \A f \in {"brand", "model", "size", "searchQuery"} : e[f] = merged(f)

(* ------------------------------------------------------------------ C18 *)
\* C18: no image-provider key.  Without the key, searchImagesUnsplash and
\* searchProductImages return the empty list, no request goes to the image
\* provider, nothing throws, and an item whose candidate gave no image is
\* returned without imageUrl and images.
C18_NoKeyNoSearch ==
  pipe # <<>> /\ ~pipe.unsplashKey =>
    /\ \A i \in 1..Len(pipe.calls) : pipe.calls[i].to # "unsplash"
    /\ pipe.pc # "searching"
    /\ pipe.unsplashAnswer = <<>>
    /\ pipe.searchImages = <<>>
    /\ Enriched1 /\ ImageSearchCalls # <<>> =>
         /\ pipe.result[1].imageUrl = <<>>
         /\ pipe.result[1].images = <<>>

\* Without the key, enrichInventoryItem called searchProductImages, made no
\* request and returned the item without image fields.
C18_Witness ==
  /\ Enriched1 /\ ~pipe.unsplashKey
  /\ Len(ImageSearchCalls) = 1
  /\ pipe.result[1].imageUrl = <<>> /\ pipe.result[1].images = <<>>
  /\ ~pipe.result[1].matched

(* ------------------------------------------------------------------ C19 *)
\* C19: the metadata accessor.  A metadata request makes no enrichItemsBatch
\* call (so no name improvement, no catalogue search, no image search) and
\* writes nothing to the enrichment cache; the steps of its handler leave the
\* enrichment cache as it is; its answer carries the number of items of the
\* raw snapshot and the brands and sizes the parser finds in their names.
C19_MetadataCheap ==
  /\ [](\A r \in Reqs :
          req[r].kind = "meta" =>
            /\ run[<<r, "main">>] = IdleRun /\ run[<<r, "pre">>] = IdleRun
            /\ \A w \in writes : w.req # r
            /\ (req[r].pc = "done" /\ req[r].rawFrom # "failed") =>
                 LET res == req[r].resp[1]
                     names == {req[r].raw[i].name : i \in 1..Len(req[r].raw)}
                 IN /\ res.status = 200
                    /\ res.total = Len(req[r].raw)
                    /\ res.brands = {parseShoeName(n).brand : n \in names} \ {<<>>}
                    /\ res.sizes = {parseShoeName(n).size : n \in names} \ {<<>>})
  /\ [][\A r \in Reqs :
          (req'[r].kind = "meta" /\ req'[r] # req[r]) => enrichCache' = enrichCache]_vars

\* A metadata request over the five-item snapshot was answered with two brands,
\* on a cold enrichment cache that is still empty.
C19_Witness ==
  \E r \in Reqs :
    /\ req[r].kind = "meta" /\ req[r].pc = "done" /\ req[r].rawFrom = "fetch"
    /\ req[r].resp[1].total = 5
    /\ req[r].resp[1].brands = { <<"a">>, <<"b">> }
    /\ enrichCache = <<>>

(* ------------------------------------------------------------------ C20 *)
\* The 1-based positions of the items of call rn whose enrichment has started,
\* and of those whose pipeline is in flight.
StartedItems(rn) == IF rn.state = "idle" THEN {} ELSE 1..(rn.i + Len(rn.slots))

InFlight(rn) ==
  IF rn.state = "idle" THEN {}
  ELSE {rn.i + p : p \in {x \in DOMAIN rn.slots : rn.slots[x].st = "pending"}}

\* C20: the batch barrier.  The items of a call are taken in consecutive
\* batches of 10, the last possibly shorter; the items of a batch start only
\* when every item of the batches before has completed (as an enriched item or
\* a fallback) and, after the first batch, in the step of the inter-batch timer;
\* at most 10 pipelines of a call are in flight.
C20_BatchBarrier ==
  /\ [](\A k \in DOMAIN run :
          run[k].state # "idle" /\ run[k].items # <<>> =>
            /\ run[k].i % 10 = 0
            /\ Len(run[k].slots) = Min(10, Len(run[k].items) - run[k].i)
            /\ Cardinality(InFlight(run[k])) <= 10
            /\ Len(run[k].out) \in {run[k].i, run[k].i + Len(run[k].slots)}
            /\ InFlight(run[k]) # {} => Len(run[k].out) = run[k].i
            /\ run[k].state = "delay" =>
                 /\ InFlight(run[k]) = {}
                 /\ Len(run[k].out) = run[k].i + 10
                 /\ Len(run[k].out) < Len(run[k].items))
  /\ [][\A k \in DOMAIN run :
          StartedItems(run'[k]) # StartedItems(run[k]) =>
            \/ run[k].state = "idle"
            \/ /\ run[k].state = "delay"
               /\ Len(run[k].out) = Cardinality(StartedItems(run[k]))
               /\ StartedItems(run'[k]) =
                    1..Min(Len(run[k].items), Cardinality(StartedItems(run[k])) + 10)
       ]_vars

\* The eleventh item is in flight: the ten before it have completed, some of
\* them as fallbacks, and their results are pushed.
C20_Witness ==
  \E k \in DOMAIN run :
    /\ run[k].state = "running" /\ Len(run[k].items) = 11
    /\ run[k].i = 10 /\ InFlight(run[k]) = {11}
    /\ Len(run[k].out) = 10
    /\ \E p \in 1..10 : run[k].how[p] = "fail"

(* ------------------------------------------------------------------ C21 *)
\* The values the pipelines of the calls wrote to the enrichment cache under
\* id: a slot that settled as "ok" or "fail" wrote its result.  (A call whose
\* slot for id is not a cache hit passed its cache check before any write
\* under id, so two such calls overlap.)
WrittenBy(k, id) ==
  {run[k].slots[p].res[1] :
     p \in {x \in DOMAIN run[k].slots :
              /\ run[k].slots[x].st \in {"ok", "fail"}
              /\ ItemAt(run[k], x).id = id}}

\* C21: racing writers for one id.  When two enrichItemsBatch calls both ran a
\* pipeline for the same item id, the values they wrote to the enrichment cache
\* are equal, so the cached value does not depend on which finished last.
C21_RacingWritersEqual ==
  \A k1 \in DOMAIN run, k2 \in DOMAIN run :
    \A id \in DOMAIN enrichCache :
      \A v1 \in WrittenBy(k1, id), v2 \in WrittenBy(k2, id) : v1 = v2

(* ------------------------------------------------------------------ C22 *)
\* The failed requests of the cycle that were followed by another request.
RetriedCalls ==
  {i \in DOMAIN cycle.calls : ~cycle.calls[i].ok /\ i < Len(cycle.calls)}

\* C22: single retry of the source fetch.  A failed page request is retried at
\* most once per cycle, and only when it is the first page asked for with the
\* limit parameter: the next request is then the first page without it.  Any
\* other failed request (a later page, the retried first page) is the last of
\* the cycle, which throws; no request is made twice and the merchant check is
\* made once.
C22_SingleRetry ==
  /\ cycle.verifications <= 1
  /\ Cardinality(RetriedCalls) <= 1
  /\ \A i \in DOMAIN cycle.calls, j \in DOMAIN cycle.calls :
       i # j => cycle.calls[i].url # cycle.calls[j].url
  /\ \A i \in DOMAIN cycle.calls :
       ~cycle.calls[i].ok =>
         IF i = 1 /\ cycle.calls[i].url = initialUrl
         THEN /\ cycle.pc = "fetch" \/ Len(cycle.calls) > 1
              /\ Len(cycle.calls) = 1 => cycle.currentUrl = urlWithoutLimit
              /\ Len(cycle.calls) > 1 => cycle.calls[2].url = urlWithoutLimit
         ELSE /\ i = Len(cycle.calls)
              /\ cycle.pc = "thrown"
              /\ cycle.result = <<>>

\* The first page failed with the limit parameter, was retried without it and
\* failed again: the cycle has thrown after two requests.
C22_Witness ==
  /\ cycle.pc = "thrown"
  /\ Len(cycle.calls) = 2
  /\ cycle.calls[1] = [url |-> initialUrl, ok |-> FALSE]
  /\ cycle.calls[2] = [url |-> urlWithoutLimit, ok |-> FALSE]

(* ------------------------------------------------------------------ C23 *)
\* The pages the cycle has received, in the order of their requests.
PagesFetched ==
  SelectSeq([i \in DOMAIN cycle.calls |->
               IF cycle.calls[i].ok THEN <<cycle.calls[i].url.page>> ELSE <<>>],
            LAMBDA x : x # <<>>)

\* The page at position p of the source is smaller than the requested size or
\* carries no next-page url.
StopPage(p) == PageLen(cycle.source, p) < limit \/ p >= cycle.source.pages

\* C23: the stop rule of the source pagination.  In every cycle, with or
\* without the limit parameter in effect, no page is requested after a page
\* that is smaller than the requested size or has no next-page url; the cycle
\* returns at such a page, and what it returns is the concatenation, in order,
\* of the pages received.
C23_StopRule ==
  /\ \A i \in DOMAIN PagesFetched :
       StopPage(PagesFetched[i][1]) => i = Len(PagesFetched) /\ cycle.pc = "returned"
  /\ cycle.pc = "returned" =>
       /\ PagesFetched # <<>>
       /\ StopPage(PagesFetched[Len(PagesFetched)][1])
       /\ cycle.result =
            <<[i \in DOMAIN PagesFetched |->
                 [page |-> PagesFetched[i][1],
                  len |-> PageLen(cycle.source, PagesFetched[i][1])]]>>

(* ------------------------------------------------------------------ C24 *)
Terminated == cycle.pc \in {"returned", "thrown"}

\* C24: the pagination loop terminates.  Whatever the source does, also when
\* every page carries a next-page url, a cycle receives at most 100 pages and
\* makes at most one failed request that it retries, and then returns or
\* throws.
C24_LoopTerminates ==
  /\ [](/\ Len(PagesFetched) <= 100
        /\ Cardinality(RetriedCalls) <= 1
        /\ Len(cycle.calls) <= 100 + 1
        /\ cycle.pageCount <= 100)
  /\ <>Terminated

\* A source of more than 100 full pages, each with a next-page url: the cycle
\* returned after the hundredth page.
C24_Witness ==
  /\ cycle.pc = "returned"
  /\ cycle.source.pages > 100
  /\ Len(PagesFetched) = 100
  /\ \A i \in DOMAIN PagesFetched : ~StopPage(PagesFetched[i][1])

(* ------------------------------------------------------------------ C25 *)
\* The items the source can report, and e carrying item's identity.
SourceItems == UNION {SeqToSet(u) : u \in Upstreams}

FromRaw(e, item) ==
  /\ e.id = item.id
  /\ e.originalName = item.name
  /\ e.price = item.price
  /\ e.stockCount = item.stockCount

\* C25: id traceability.  The item cached under key k has id k, and the item
\* a call returns for a raw item has that raw item's id.  An item a pipeline
\* builds (enriched or fallback) has id, originalName, price and stockCount of
\* the raw item it was built from; an item served from the cache has those of
\* a raw item of the same id that the source reported earlier.
C25_IdTraceable ==
  /\ \A k \in DOMAIN enrichCache :
       /\ enrichCache[k].id = k
       /\ \E item \in SourceItems : isValidItem(item) /\ FromRaw(enrichCache[k], item)
  /\ \A k \in DOMAIN run :
       /\ \A p \in DOMAIN run[k].out : run[k].out[p].id = run[k].items[p].id
       /\ \A p \in DOMAIN run[k].slots :
            run[k].slots[p].st # "pending" =>
              LET e == run[k].slots[p].res[1]
                  item == ItemAt(run[k], p)
              IN /\ e.id = item.id
                 /\ run[k].slots[p].st \in {"ok", "fail"} => FromRaw(e, item)
                 /\ \E raw \in SourceItems : FromRaw(e, raw)

\* A call returned an enriched item and a fallback item, both cached under their
\* ids, and another call returned an item from the cache whose price is that of
\* an earlier snapshot.
C25_Witness ==
  /\ \E k \in DOMAIN run :
       /\ run[k].state = "done"
       /\ \E p, q \in DOMAIN run[k].out :
            /\ run[k].how[p] = "ok" /\ run[k].out[p].matched
            /\ run[k].how[q] = "fail"
            /\ enrichCache[run[k].items[p].id] = run[k].out[p]
            /\ enrichCache[run[k].items[q].id] = run[k].out[q]
  /\ \E k \in DOMAIN run :
       \E p \in DOMAIN run[k].out :
         /\ run[k].how[p] = "hit"
         /\ run[k].out[p].price # run[k].items[p].price

(* ------------------------------------------------------------------ C26 *)
\* C26: freshness of served items.  Every item of a page result has the price
\* and the stockCount of the item of the same id in the raw snapshot the page
\* was sliced from.
C26_FreshItems ==
  \A r \in DOMAIN req :
    (req[r].kind = "page" /\ req[r].pc = "done" /\ req[r].resp[1].status = 200) =>
      \A i \in DOMAIN req[r].resp[1].items :
        LET e == req[r].resp[1].items[i]
        IN \E j \in DOMAIN req[r].raw :
             /\ req[r].raw[j].id = e.id
             /\ req[r].raw[j].price = e.price
             /\ req[r].raw[j].stockCount = e.stockCount

(* ------------------------------------------------------------------ C27 *)
Ids(items) == [i \in DOMAIN items |-> items[i].id]

\* The raw items at the 0-based indices [(p-1)*pageSize, p*pageSize).
RawPage(raw, p, pageSize) ==
  [i \in 1..(Min(p * pageSize, Len(raw)) - Min((p - 1) * pageSize, Len(raw))) |->
     raw[(p - 1) * pageSize + i]]

RECURSIVE ConcatPages(_, _, _)
ConcatPages(raw, n, pageSize) ==
  IF n = 0 THEN <<>>
  ELSE ConcatPages(raw, n - 1, pageSize) \o RawPage(raw, n, pageSize)

\* C27: pages partition the snapshot.  The items of page p are, by id and in
\* order, the raw items at indices [(p-1)*pageSize, p*pageSize) of the snapshot
\* the request read: the stock filter after the enrichment removes none; and
\* the pages 1..totalPages of that snapshot put one after the other are the
\* snapshot.
C27_PagesPartition ==
  \A r \in DOMAIN req :
    (req[r].kind = "page" /\ req[r].pc = "done" /\ req[r].resp[1].status = 200) =>
      /\ Ids(req[r].resp[1].items) = Ids(RawPage(req[r].raw, req[r].page, req[r].pageSize))
      /\ ConcatPages(req[r].raw, req[r].resp[1].totalPages, req[r].pageSize) = req[r].raw

\* Page 2 of a snapshot of three pages was answered with its two items, one of
\* them from the enrichment cache.
C27_Witness ==
  \E r \in DOMAIN req :
    /\ req[r].kind = "page" /\ req[r].pc = "done" /\ req[r].resp[1].status = 200
    /\ req[r].page = 2 /\ req[r].pageSize = 2
    /\ req[r].resp[1].totalPages = 3
    /\ Len(req[r].resp[1].items) = 2
    /\ \E p \in 1..2 : run[<<r, "main">>].how[p] = "hit"

(* ------------------------------------------------------------------ C28 *)
Answered(r, kind) ==
  req[r].kind = kind /\ req[r].pc = "done" /\ req[r].resp[1].status = 200

\* C28: consistent totals.  The total of a page response and the total of a
\* metadata response are the length of the raw snapshot the request read, so
\* they are equal for the same snapshot; hasMore is true exactly when the next
\* page of that snapshot has at least one item.
C28_ConsistentTotals ==
  /\ \A r \in DOMAIN req :
       /\ Answered(r, "page") =>
            /\ req[r].resp[1].total = Len(req[r].raw)
            /\ req[r].resp[1].hasMore <=>
                 RawPage(req[r].raw, req[r].page + 1, req[r].pageSize) # <<>>
       /\ Answered(r, "meta") => req[r].resp[1].total = Len(req[r].raw)
  /\ \A r1 \in DOMAIN req, r2 \in DOMAIN req :
       (Answered(r1, "page") /\ Answered(r2, "meta") /\ req[r1].raw = req[r2].raw) =>
         req[r1].resp[1].total = req[r2].resp[1].total

\* A page request and a metadata request read the same snapshot of five items:
\* both report 5, and page 3 of size 2 has no next page.
C28_Witness ==
  \E r1 \in DOMAIN req, r2 \in DOMAIN req :
    /\ Answered(r1, "page") /\ Answered(r2, "meta")
    /\ req[r1].raw = req[r2].raw
    /\ req[r1].resp[1].total = 5 /\ req[r2].resp[1].total = 5
    /\ req[r1].page = 3 /\ req[r1].pageSize = 2 /\ ~req[r1].resp[1].hasMore

(* ------------------------------------------------------------------ C29 *)
\* Handler r is taken up in this step as a product lookup.
LookupStarts(r) == req[r].pc = "idle" /\ req'[r].kind = "item"

\* C29: the cache short-circuit of the product lookup.  A lookup of an id that
\* is in the enrichment cache answers in its first step from the cached item:
\* it does not call getRawInventory (no read of the raw cache, no fetch), starts
\* no enrichItemsBatch call and leaves both caches as they are.  A lookup of an
\* id that is not cached calls getRawInventory, and the only enrichItemsBatch
\* call a lookup ever makes is over the one raw item of the requested id.
C29_LookupShortCircuit ==
  /\ [][\A r \in DOMAIN req :
          LookupStarts(r) =>
            IF req'[r].id \in DOMAIN enrichCache
            THEN /\ req'[r].pc = "done"
                 /\ req'[r].rawFrom = "none"
                 /\ req'[r].resp = <<ProductResponse(enrichCache[req'[r].id])>>
                 /\ run' = run
                 /\ enrichCache' = enrichCache /\ rawCache' = rawCache
                 /\ writes' = writes
            ELSE req'[r].pc = "fetching" \/ req'[r].rawFrom = "cache"
       ]_vars
  /\ [](\A r \in DOMAIN req :
          req[r].kind = "item" =>
            /\ run[<<r, "pre">>].state = "idle"
            /\ Len(run[<<r, "main">>].items) <= 1
            /\ \A p \in DOMAIN run[<<r, "main">>].items :
                 /\ req[r].rawFrom \in {"cache", "fetch"}
                 /\ run[<<r, "main">>].items[p].id = req[r].id
                 /\ run[<<r, "main">>].items[p] \in SeqToSet(req[r].raw)
            /\ \A w \in writes : w.req = r => w.id = req[r].id)

\* A lookup answered from the enrichment cache without a raw read, and another
\* that missed, read the raw inventory and enriched its one item.
C29_Witness ==
  \E r1 \in DOMAIN req, r2 \in DOMAIN req :
    /\ Answered(r1, "item") /\ req[r1].rawFrom = "none"
    /\ run[<<r1, "main">>].state = "idle"
    /\ Answered(r2, "item") /\ req[r2].rawFrom \in {"cache", "fetch"}
    /\ Len(run[<<r2, "main">>].items) = 1
    /\ run[<<r2, "main">>].how # <<"hit">>

(* ------------------------------------------------------------------ C30 *)
\* Cart c has an owner, and the requester is not that user (or is no user).
Foreign(c, who) == c.userId # <<>> /\ c.userId # who.userId

PerCart(q) == q.ep \in {"GET", "DELETE", "PUTitem", "DELETEitem", "POSTitem"}

====
